---- MODULE Spec2Model ----
(***************************************************************************)
(* Model of the invoice-management backend: the file-backed document       *)
(* store (backend/database_file.py) and the two other storage classes      *)
(* (backend/database_netlify.py, backend/database_json.py), the user       *)
(* operations (backend/auth_file.py), the request handlers                 *)
(* (backend/main.py) and the invoice helpers (backend/utils.py).           *)
(*                                                                         *)
(* A stored record is a Python dict: it is modelled as a function from     *)
(* key names to values, so that "key in dict" is "key \in DOMAIN d".       *)
(* A collection file is the list of dicts it holds.                        *)
(***************************************************************************)
EXTENDS Integers, Sequences, FiniteSets, TLC

\* users, clients, invoices: the content of users.json, clients.json and
\*     invoices.json, each the list of dicts the file holds
\* now: the clock read by datetime.utcnow()
\* focus: the collection the calls of this run are made on
\* last: the last call: its name, its argument, its result
\* ever: history: the ids given to appended records, the numbers generated,
\*     the number of calls the processes have started
\* torn: the collections whose file is truncated or garbled (does not parse)
\* proc: the call each process is in, and its local variables
\* backend: the storage object of the run: its class and, for JSONDatabase, whether
\*     its data attribute holds a dict or None
\* disk: for each collection what its file holds (text, bytes that are not
\*     text, or no file at all), and whether writing to the disk fails
VARIABLES users, clients, invoices, now, focus, last, ever, torn, proc, backend, disk

vars == <<users, clients, invoices, now, focus, last, ever, torn, proc, backend, disk>>

(* ------------------------------ bounds --------------------------------- *)

\* longest collection an append may extend
MaxLen == 2
\* last value of the clock that stamps created_at / updated_at
MaxTime == 1
\* largest id a caller of FileDatabase.save_* passes in a record
MaxId == 2
\* number of processes serving requests at the same time
NumProcs == 2
\* number of calls the processes start in a run
MaxCalls == 3
\* significant bits of a float (CPython: 53)
Precision == 8
\* longest of the two item lists given to calculate_invoice_totals
MaxItems == 1
\* most rows in the invoice table given to generate_invoice_number
MaxRows == 2

(* ------------------------- Python dict helpers ------------------------- *)

\* value of dict.get(key) on an absent integer key
None == -1
\* value of dict.get(key) on an absent string key
NoneStr == "None"

\* d.get(k, dflt)
Get(d, k, dflt) == IF k \in DOMAIN d THEN d[k] ELSE dflt

\* d[k] = v
With(d, k, v) == [x \in DOMAIN d \cup {k} |-> IF x = k THEN v ELSE d[x]]

\* d.update(u)
Update(d, u) == [x \in DOMAIN d \cup DOMAIN u |-> IF x \in DOMAIN u THEN u[x] ELSE d[x]]

\* {}
EmptyDict == [x \in {} |-> None]

\* the index of the first record of list whose key k equals v, 0 when none
FirstMatch(list, k, v, dflt) ==
    LET hits == {i \in 1..Len(list) : Get(list[i], k, dflt) = v}
    IN IF hits = {} THEN 0 ELSE CHOOSE i \in hits : \A j \in hits : i <= j

\* [x for x in list if x.get(k) != v]
RECURSIVE Without(_, _, _, _)
Without(list, k, v, dflt) ==
    IF list = <<>> THEN <<>>
    ELSE IF Get(Head(list), k, dflt) = v
         THEN Without(Tail(list), k, v, dflt)
         ELSE <<Head(list)>> \o Without(Tail(list), k, v, dflt)

\* what a call gives its caller: a value, None, or an exception
Value(v) == [kind |-> "value", val |-> v]
PyNone == [kind |-> "None"]
Raise(e) == [kind |-> "raise", error |-> e]

(* --------------------- FileDatabase (database_file.py) ----------------- *)

\* the id an appended record gets when it carries none
NewId(list) == Len(list) + 1

\* Upsert with the matching record dropped and the new one put at the end
Upsert_move(list, data, k, dflt, t) ==
    LET i == FirstMatch(list, k, Get(data, k, dflt), dflt)
        d1 == With(With(data, "created_at", t), "updated_at", t)
        d2 == IF "id" \in DOMAIN d1 THEN d1 ELSE With(d1, "id", Len(list) + 1)
    IN IF i > 0
       THEN [list |-> Append(Without(list, k, Get(data, k, dflt), dflt),
                             With(data, "updated_at", t)),
             ret |-> With(data, "updated_at", t), appended |-> FALSE]
       ELSE [list |-> Append(list, d2), ret |-> d2, appended |-> TRUE]

\* the body shared by save_user, save_client and save_invoice: the list to
\* write and the dict returned, for the list read, the dict passed, the key
\* field compared and the time of the call
Upsert(list, data, k, dflt, t) ==
    LET i == FirstMatch(list, k, Get(data, k, dflt), dflt)
    IN IF i > 0
       THEN LET d == With(data, "updated_at", t)
            IN [list |-> [list EXCEPT ![i] = d], ret |-> d, appended |-> FALSE]
       ELSE LET d1 == With(With(data, "created_at", t), "updated_at", t)
                d2 == IF "id" \in DOMAIN d1 THEN d1 ELSE With(d1, "id", NewId(list))
            IN [list |-> Append(list, d2), ret |-> d2, appended |-> TRUE]

\* save_user that looks for the stored record by id
save_user_by_id(list, user_data, t) == Upsert(list, user_data, "id", None, t)

save_user(list, user_data, t) == Upsert(list, user_data, "email", NoneStr, t)

save_client(list, client_data, t) == Upsert(list, client_data, "id", None, t)

save_invoice(list, invoice_data, t) == Upsert(list, invoice_data, "id", None, t)

\* the save_user / save_client / save_invoice body of FileDatabase
FileDatabase_upsert(c, list, data, t) ==
    IF c = "users" THEN save_user(list, data, t)
    ELSE IF c = "clients" THEN save_client(list, data, t)
    ELSE save_invoice(list, data, t)

\* Delete that stops at the first record found
Delete_first(list, k, v, dflt) ==
    LET i == FirstMatch(list, k, v, dflt)
    IN IF i > 0
       THEN [list |-> SubSeq(list, 1, i - 1) \o SubSeq(list, i + 1, Len(list)), ret |-> TRUE]
       ELSE [list |-> list, ret |-> FALSE]

\* the body shared by delete_user, delete_client and delete_invoice: the list
\* kept, whether it is written, and the value returned
Delete(list, k, v, dflt) ==
    LET kept == Without(list, k, v, dflt)
    IN IF Len(kept) < Len(list)
       THEN [list |-> kept, ret |-> TRUE]
       ELSE [list |-> list, ret |-> FALSE]

delete_user(list, email) == Delete(list, "email", email, NoneStr)

delete_client(list, client_id) == Delete(list, "id", client_id, None)

delete_invoice(list, invoice_id) == Delete(list, "id", invoice_id, None)

\* get_user_by_email / get_client_by_id / get_invoice_by_id: the index of the
\* record returned, 0 for None
get_user_by_email(list, email) == FirstMatch(list, "email", email, NoneStr)

get_client_by_id(list, client_id) == FirstMatch(list, "id", client_id, None)

get_invoice_by_id(list, invoice_id) == FirstMatch(list, "id", invoice_id, None)


\* The methods on the three files of the data directory. Each save_* and
\* delete_* reads the file of its collection and writes that file: store is
\* the content of users.json, clients.json and invoices.json, and the result
\* is the content after the call and the value returned.

\* the methods, with a delete_client that also drops the invoices of the client
FileDatabase_method_cascade(store, op, arg, t) ==
    IF op = "delete_client"
    THEN LET r == delete_client(store.clients, arg)
         IN [store |-> [store EXCEPT !.clients = r.list,
                                     !.invoices = Without(@, "client_id", arg, None)],
             ret |-> r.ret]
    ELSE IF op = "save_user"
    THEN LET r == save_user(store.users, arg, t)
         IN [store |-> [store EXCEPT !.users = r.list], ret |-> r.ret]
    ELSE IF op = "save_client"
    THEN LET r == save_client(store.clients, arg, t)
         IN [store |-> [store EXCEPT !.clients = r.list], ret |-> r.ret]
    ELSE IF op = "save_invoice"
    THEN LET r == save_invoice(store.invoices, arg, t)
         IN [store |-> [store EXCEPT !.invoices = r.list], ret |-> r.ret]
    ELSE IF op = "delete_user"
    THEN LET r == delete_user(store.users, arg)
         IN [store |-> [store EXCEPT !.users = r.list], ret |-> r.ret]
    ELSE LET r == delete_invoice(store.invoices, arg)
         IN [store |-> [store EXCEPT !.invoices = r.list], ret |-> r.ret]

FileDatabase_method(store, op, arg, t) ==
    IF op = "save_user"
    THEN LET r == save_user(store.users, arg, t)
         IN [store |-> [store EXCEPT !.users = r.list], ret |-> r.ret]
    ELSE IF op = "save_client"
    THEN LET r == save_client(store.clients, arg, t)
         IN [store |-> [store EXCEPT !.clients = r.list], ret |-> r.ret]
    ELSE IF op = "save_invoice"
    THEN LET r == save_invoice(store.invoices, arg, t)
         IN [store |-> [store EXCEPT !.invoices = r.list], ret |-> r.ret]
    ELSE IF op = "delete_user"
    THEN LET r == delete_user(store.users, arg)
         IN [store |-> [store EXCEPT !.users = r.list], ret |-> r.ret]
    ELSE IF op = "delete_client"
    THEN LET r == delete_client(store.clients, arg)
         IN [store |-> [store EXCEPT !.clients = r.list], ret |-> r.ret]
    ELSE LET r == delete_invoice(store.invoices, arg)
         IN [store |-> [store EXCEPT !.invoices = r.list], ret |-> r.ret]

(* ----------------------- invoice helpers (utils.py) -------------------- *)

\* A Python float is a binary floating-point number: <<m, e>> stands for
\* m * 2^e, with m = 0 or 2^(Precision-1) <= m < 2^Precision. Every
\* operation gives the exact result rounded to the nearest such number, to
\* the one with even m when two are as near. The amounts here are not
\* negative.
RECURSIVE Pow2(_)
Pow2(k) == IF k = 0 THEN 1 ELSE 2 * Pow2(k - 1)

\* the float nearest to (n / d) * 2^e, for n >= 0 and d > 0
RECURSIVE Round(_, _, _)
Round(n, d, e) ==
    IF n = 0 THEN <<0, 0>>
    ELSE IF n >= Pow2(Precision) * d THEN Round(n, 2 * d, e + 1)
    ELSE IF n < Pow2(Precision - 1) * d THEN Round(2 * n, d, e - 1)
    ELSE LET q == n \div d
             r == n % d
             m == IF 2 * r > d \/ (2 * r = d /\ q % 2 = 1) THEN q + 1 ELSE q
         IN IF m = Pow2(Precision) THEN <<Pow2(Precision - 1), e + 1>> ELSE <<m, e>>

\* float(n) for an integer n >= 0
float(n) == Round(n, 1, 0)

\* a * b, a / b and a + b on floats; in a + b a term below a quarter of the
\* last bit of the other does not change it
fmul(a, b) == Round(a[1] * b[1], 1, a[2] + b[2])
fdiv(a, b) == Round(a[1], b[1], a[2] - b[2])
fadd(a, b) ==
    IF a[1] = 0 THEN b
    ELSE IF b[1] = 0 THEN a
    ELSE LET hi == IF a[2] >= b[2] THEN a ELSE b
             lo == IF a[2] >= b[2] THEN b ELSE a
         IN IF hi[2] - lo[2] > Precision + 1 THEN hi
            ELSE Round(hi[1] * Pow2(hi[2] - lo[2]) + lo[1], 1, lo[2])

\* calculate_invoice_totals: <<subtotal, total_tax, total>> of a list of
\* items, whose quantity, unit_price and tax_rate are floats
RECURSIVE calculate_invoice_totals(_)
calculate_invoice_totals(items) ==
    IF items = <<>> THEN <<float(0), float(0), float(0)>>
    ELSE LET item == items[Len(items)]
             rest == calculate_invoice_totals(SubSeq(items, 1, Len(items) - 1))
             item_total == fmul(float(item.quantity), float(item.unit_price))
             item_tax == fmul(item_total, fdiv(float(item.tax_rate), float(100)))
             subtotal == fadd(rest[1], item_total)
             total_tax == fadd(rest[2], item_tax)
         IN <<subtotal, total_tax, fadd(subtotal, total_tax)>>

\* A number given to number_to_words is a float with its sign (mag is the
\* float of its absolute value), or inf, -inf or nan.

\* int(x) for a float x >= 0: the whole part
Whole(x) == IF x[2] >= 0 THEN x[1] * Pow2(x[2]) ELSE x[1] \div Pow2(-x[2])

\* x - int(x) for a float x >= 0; the difference is a float, nothing is rounded
Frac(x) == IF x[2] >= 0 THEN float(0) ELSE Round(x[1] % Pow2(-x[2]), 1, x[2])

\* round(x) for a float x >= 0: the nearest integer, the even one of two
\* that are as near
round(x) ==
    IF x[2] >= 0 THEN x[1] * Pow2(x[2])
    ELSE LET d == Pow2(-x[2])
             q == x[1] \div d
             r == x[1] % d
         IN IF 2 * r > d \/ (2 * r = d /\ q % 2 = 1) THEN q + 1 ELSE q

\* p.number_to_words(n, andword="") of inflect for 0 <= n < 1000000, as the
\* list of its words; <<"twenty", "one">> is the word twenty-one
Ones == <<"one", "two", "three", "four", "five", "six", "seven", "eight", "nine", "ten",
          "eleven", "twelve", "thirteen", "fourteen", "fifteen", "sixteen", "seventeen",
          "eighteen", "nineteen">>
Tens == <<"ten", "twenty", "thirty", "forty", "fifty", "sixty", "seventy", "eighty", "ninety">>
RECURSIVE Below1000(_)
Below1000(n) ==
    IF n = 0 THEN <<>>
    ELSE IF n < 20 THEN <<Ones[n]>>
    ELSE IF n < 100
         THEN IF n % 10 = 0 THEN <<Tens[n \div 10]>> ELSE <<<<Tens[n \div 10], Ones[n % 10]>>>>
    ELSE <<Ones[n \div 100], "hundred">> \o Below1000(n % 100)
inflect_number_to_words(n) ==
    IF n = 0 THEN <<"zero">>
    ELSE IF n < 1000 THEN Below1000(n)
    ELSE Below1000(n \div 1000) \o <<"thousand">> \o Below1000(n % 1000)

\* number_to_words: the words built (minus for a negative whole part, the
\* words of the whole part capitalized, " and <words>/100" for cents above
\* 0, " Only"), or str(number) when an exception is raised: int(number)
\* raises OverflowError for inf and -inf and ValueError for nan. The whole
\* part and the cents of a negative number are negative or 0, so its cents
\* are never above 0.
number_to_words(number) ==
    IF number.kind # "finite" THEN [kind |-> "str", number |-> number]
    ELSE LET integer_part == Whole(number.mag)
             decimal_part == round(fmul(Frac(number.mag), float(100)))
         IN [kind |-> "words",
             minus |-> number.neg /\ integer_part > 0,
             integer |-> inflect_number_to_words(integer_part),
             cents |-> IF ~number.neg /\ decimal_part > 0
                       THEN inflect_number_to_words(decimal_part)
                       ELSE <<>>]

\* strings are sequences of characters
Digits == <<"0", "1", "2", "3", "4", "5", "6", "7", "8", "9">>
IsDigit(ch) == \E i \in 1..10 : Digits[i] = ch
DigitVal(ch) == (CHOOSE i \in 1..10 : Digits[i] = ch) - 1

\* s.split('-')[-1]: what follows the last '-' of s, all of s when it has none
SplitLast(s) ==
    LET dashes == {i \in 1..Len(s) : s[i] = "-"}
    IN IF dashes = {} THEN s
       ELSE SubSeq(s, (CHOOSE i \in dashes : \A j \in dashes : j <= i) + 1, Len(s))

\* int(s) for a string of decimal digits; ValueError for any other string
ValueError == -1
RECURSIVE int(_)
int(s) ==
    IF s = <<>> \/ \E i \in 1..Len(s) : ~IsDigit(s[i]) THEN ValueError
    ELSE IF Len(s) = 1 THEN DigitVal(s[1])
    ELSE 10 * int(SubSeq(s, 1, Len(s) - 1)) + DigitVal(s[Len(s)])

\* str(n) for n >= 0
RECURSIVE str(_)
str(n) == IF n < 10 THEN <<Digits[n + 1]>> ELSE str(n \div 10) \o <<Digits[(n % 10) + 1]>>

\* f"{n:04d}" for n >= 0
ZeroPad(s, w) == [i \in 1..(IF Len(s) < w THEN w ELSE Len(s)) |->
                    IF Len(s) < w /\ i <= w - Len(s) THEN "0"
                    ELSE s[i - (IF Len(s) < w THEN w - Len(s) ELSE 0)]]
Format04d(n) == ZeroPad(str(n), 4)

\* generate_invoice_number that takes the row inserted last
generate_invoice_number_newest(db) ==
    LET new_num ==
            IF db = <<>> THEN 1
            ELSE LET last_num == int(SplitLast(db[Len(db)].invoice_number))
                 IN IF last_num = ValueError THEN 1 ELSE last_num + 1
    IN <<"I", "N", "V", "-">> \o Format04d(new_num)

\* generate_invoice_number(db): db.query(Invoice).order_by(Invoice.id.desc()).first()
\* is a row of db with the greatest id
generate_invoice_number(db) ==
    LET new_num ==
            IF db = <<>> THEN 1
            ELSE LET last_invoice ==
                         db[CHOOSE i \in 1..Len(db) : \A j \in 1..Len(db) : db[j].id <= db[i].id]
                     last_num == int(SplitLast(last_invoice.invoice_number))
                 IN IF last_num = ValueError THEN 1 ELSE last_num + 1
    IN <<"I", "N", "V", "-">> \o Format04d(new_num)

(* ------------- statistics (database_file.py, main.py) ------------------ *)

\* sum(xs) of Python for a list of floats: 0 + xs[0] + xs[1] + ..., each
\* addition rounded
RECURSIVE sum(_)
sum(xs) ==
    IF xs = <<>> THEN float(0)
    ELSE fadd(sum(SubSeq(xs, 1, Len(xs) - 1)), xs[Len(xs)])

\* sum(xs) of CPython 3.12 and later, which carries the rounding errors of the
\* additions along and adds them at the end: the float nearest to the exact
\* sum of the floats
RECURSIVE LeastExp(_)
LeastExp(xs) ==
    IF xs = <<>> THEN 0
    ELSE LET rest == LeastExp(Tail(xs))
         IN IF Head(xs)[2] < rest THEN Head(xs)[2] ELSE rest
RECURSIVE Scaled(_, _)
Scaled(xs, e) ==
    IF xs = <<>> THEN 0
    ELSE Head(xs)[1] * Pow2(Head(xs)[2] - e) + Scaled(Tail(xs), e)
sum_compensated(xs) == Round(Scaled(xs, LeastExp(xs)), 1, LeastExp(xs))

\* [inv.get("total_amount", 0) for inv in invoices]
RECURSIVE TotalAmounts(_)
TotalAmounts(invs) ==
    IF invs = <<>> THEN <<>>
    ELSE <<Get(Head(invs), "total_amount", float(0))>> \o TotalAmounts(Tail(invs))

\* len([inv for inv in invoices if inv.get("status") in statuses])
CountStatus(invs, statuses) ==
    Cardinality({i \in 1..Len(invs) : Get(invs[i], "status", NoneStr) \in statuses})

\* FileDatabase.get_stats, for the three lists read and the value of
\* sum(inv.get("total_amount", 0) for inv in invoices)
get_stats(us, cs, invs, total) ==
    [users_count |-> Len(us),
     clients_count |-> Len(cs),
     invoices_count |-> Len(invs),
     total_revenue |-> total,
     paid_invoices |-> CountStatus(invs, {"paid"}),
     pending_invoices |-> CountStatus(invs, {"draft", "sent"})]

\* the calendar: the run begins on 20 December of year 0 and one step of the
\* clock is 20 days. DayOf(t) is the day of the time t, counted from 1 on
\* 1 January of year 0; the years have 365 days
DayOf(t) == 354 + 20 * t
YearOf(t) == (DayOf(t) - 1) \div 365
MonthEnds == <<31, 59, 90, 120, 151, 181, 212, 243, 273, 304, 334, 365>>
MonthOf(t) ==
    LET d == ((DayOf(t) - 1) % 365) + 1
    IN CHOOSE m \in 1..12 : d <= MonthEnds[m] /\ (m > 1 => d > MonthEnds[m - 1])

\* datetime(current_year, month, 1).strftime("%b")
MonthNames == <<"Jan", "Feb", "Mar", "Apr", "May", "Jun",
                "Jul", "Aug", "Sep", "Oct", "Nov", "Dec">>

\* the list monthly_revenue that get_dashboard_stats builds for the invoices
\* read and the current year
monthly_revenue(invs, current_year) ==
    [month \in 1..12 |->
        LET in_month(inv) == /\ YearOf(inv.created_at) = current_year
                             /\ MonthOf(inv.created_at) = month
        IN [month |-> MonthNames[month],
            revenue |-> sum(TotalAmounts(SelectSeq(invs, in_month)))]]

(* ------------------------------ inputs --------------------------------- *)

Colls == {"users", "clients", "invoices"}

ADMIN_EMAIL == "admin@aasko.com"
ADMIN_NAME == "Admin User"
ADMIN_PASSWORD == "admin123"

\* settings.SECRET_KEY and settings.ACCESS_TOKEN_EXPIRE_MINUTES (config.py)
SECRET_KEY == "your-secret-key-here-change-in-production"
ACCESS_TOKEN_EXPIRE_MINUTES == 30 * 24 * 60

\* datetime.utcnow() in minutes: one step of the clock is 20 days, so that a
\* token outlives one step and not two
utcnow(t) == t * ((2 * ACCESS_TOKEN_EXPIRE_MINUTES) \div 3)

\* create_access_token(data, timedelta(minutes=ACCESS_TOKEN_EXPIRE_MINUTES)):
\* a token is the claims and the key its signature was made with; anyone can
\* read the claims, only the holder of the key can sign them
create_access_token(data, t) ==
    [form |-> "jws", key |-> SECRET_KEY,
     claims |-> With(data, "exp", utcnow(t) + ACCESS_TOKEN_EXPIRE_MINUTES)]

Emails == {ADMIN_EMAIL, "user@aasko.com"}
Passwords == {"secret"}
UserNames == {"User"}

\* get_password_hash: the stored form of a password
get_password_hash(password) == <<"bcrypt", password>>

ClientNames == {"Acme"}

\* invoice numbers are strings: sequences of characters
INV_0002 == <<"I", "N", "V", "-", "0", "0", "0", "2">>
InvoiceNumbers == {<<>>, INV_0002}
Item1 == [quantity |-> 2, unit_price |-> 50, tax_rate |-> 10]
Item2 == [quantity |-> 1, unit_price |-> 200, tax_rate |-> 0]

\* a dict with or without an "id" chosen by the caller
WithIds(ds) == ds \cup {With(d, "id", i) : d \in ds, i \in 1..MaxId}

\* the dicts a caller passes to FileDatabase.save_user / save_client / save_invoice
UserDicts == WithIds({[email |-> e, name |-> n] : e \in Emails, n \in UserNames})
ClientDicts == WithIds({[name |-> n, phone |-> NoneStr] : n \in ClientNames})
InvoiceDicts == WithIds({[invoice_number |-> INV_0002, status |-> "draft"]})

\* the bodies of ClientCreate / InvoiceCreate after dict()
ClientCreates == {[name |-> n, phone |-> NoneStr] : n \in ClientNames}
InvoiceCreates ==
    {[invoice_number |-> nr, status |-> "draft", client_id |-> 1, items |-> <<Item1>>]
     : nr \in InvoiceNumbers}

\* the dicts saved in collection c
SaveDicts(c) ==
    IF c = "users" THEN {u \in UserDicts : "id" \notin DOMAIN u}
    ELSE IF c = "clients" THEN ClientCreates
    ELSE {d \in InvoiceDicts : "id" \notin DOMAIN d}

\* the bodies of ClientUpdate / InvoiceUpdate after dict(exclude_unset=True):
\* the fields the caller supplied, each with its value
ClientUpdates == {EmptyDict, [phone |-> "555-0000"]}
InvoiceUpdates == {EmptyDict, [status |-> "paid"], [items |-> <<Item2>>]}

\* the items given to calculate_invoice_totals, and the lists of them
ItemSet ==
    {Item1, Item2} \cup
    {[quantity |-> q, unit_price |-> pr, tax_rate |-> r] : q \in 1..2, pr \in {1, 100}, r \in {0, 7}}
ItemLists == UNION {[1..n -> ItemSet] : n \in 0..MaxItems}

\* the invoice numbers of the rows of the invoice table
RowNumbers ==
    {INV_0002,
     <<"I", "N", "V", "-", "9", "9", "9", "9">>,
     <<"I", "N", "V", "-", "1", "2", "3", "4", "5">>,
     <<"I", "N", "V", "-">>,
     <<"I", "N", "V", "-", "7", "a">>,
     <<"2", "0", "2", "4", "-", "I", "N", "V">>,
     <<"A", "-", "1", "-", "0", "0", "7">>,
     <<"4", "2">>}

\* the amounts given to number_to_words, in thousandths, and the numbers:
\* each amount and its negative, and the floats that are not finite
Thousandths == {0, 5, 500, 995, 1000, 1500, 1995, 5500, 12250, 99990, 123450}
Numbers ==
    {[kind |-> "finite", neg |-> FALSE, mag |-> Round(n, 1000, 0)] : n \in Thousandths}
    \cup {[kind |-> "finite", neg |-> TRUE, mag |-> Round(n, 1000, 0)] : n \in Thousandths \ {0}}
    \cup {[kind |-> k] : k \in {"inf", "-inf", "nan"}}

\* the invoice table: id is the primary key, invoice_number is unique
Tables ==
    {t \in UNION {[1..n -> [id : 1..MaxId, invoice_number : RowNumbers]] : n \in 0..MaxRows} :
        \A i, j \in 1..Len(t) :
            i # j => t[i].id # t[j].id /\ t[i].invoice_number # t[j].invoice_number}

\* the accounts a caller of FileDatabase.save_user stores, with or without
\* the flags is_active and is_admin
AccountDicts ==
    {[email |-> e, name |-> n, hashed_password |-> get_password_hash(pw),
      is_active |-> f[1], is_admin |-> f[2]]
     : e \in Emails, n \in UserNames, pw \in Passwords,
       f \in {<<TRUE, TRUE>>, <<TRUE, FALSE>>, <<FALSE, TRUE>>}}
    \cup {[email |-> e, name |-> n, hashed_password |-> get_password_hash(pw)]
          : e \in Emails, n \in UserNames, pw \in Passwords}

\* the tokens a request may carry at time t: the tokens signed with the
\* key up to then, with or without a subject, the first of them before the
\* run began; the claims of the newest signed with another key; a string
\* that is not a token
Tokens(t) ==
    LET issued == {create_access_token(d, t0)
                   : d \in {[sub |-> e] : e \in Emails} \cup {EmptyDict}, t0 \in (-1)..t}
    IN issued
       \cup {[create_access_token([sub |-> e], t) EXCEPT !.key = "another-key"] : e \in Emails}
       \cup {[form |-> "text", key |-> "", claims |-> EmptyDict]}

\* the amounts of invoices, in cents: 1.10 and 2.20
Amounts == {110, 220}

\* the invoices a caller of FileDatabase.save_invoice stores: each status,
\* with or without total_amount, one of them with an id
StatDicts ==
    {[invoice_number |-> INV_0002, status |-> "draft", total_amount |-> Round(110, 100, 0)],
     [invoice_number |-> INV_0002, status |-> "sent", total_amount |-> Round(220, 100, 0)],
     [invoice_number |-> INV_0002, status |-> "paid", total_amount |-> Round(220, 100, 0)],
     [invoice_number |-> INV_0002, status |-> "overdue", total_amount |-> Round(110, 100, 0)],
     [invoice_number |-> INV_0002, status |-> "paid"],
     [id |-> 1, invoice_number |-> INV_0002, status |-> "cancelled",
      total_amount |-> Round(110, 100, 0)]}

\* the invoices of a client that a caller of save_invoice stores
ClientInvoices ==
    {[invoice_number |-> INV_0002, status |-> "draft", client_id |-> i] : i \in 1..MaxId}

\* the authenticated users a handler may be called for
CurrentUsers == {[email |-> ADMIN_EMAIL, id |-> 1, is_active |-> TRUE, is_admin |-> TRUE]}

\* the ids a caller asks for
AskedIds == 1..(MaxLen + 1)

(* ------------------- user operations (auth_file.py) -------------------- *)

Ok(r) == [status |-> 200, list |-> r.list, ret |-> r.ret, appended |-> r.appended]
Err(code, detail) == [status |-> code, detail |-> detail]

\* create_user without the check of the email
create_user_unchecked(list, email, name, password, is_admin, t) ==
    Ok(save_user(list,
                 [email |-> email, name |-> name,
                  hashed_password |-> get_password_hash(password),
                  is_admin |-> is_admin, is_active |-> TRUE], t))

\* create_user: the result for the users list, the arguments and the time
create_user(list, email, name, password, is_admin, t) ==
    IF get_user_by_email(list, email) > 0
    THEN Err(400, "Email already registered")
    ELSE Ok(save_user(list,
                      [email |-> email, name |-> name,
                       hashed_password |-> get_password_hash(password),
                       is_admin |-> is_admin, is_active |-> TRUE], t))

\* initialize_admin_user: the result of save_user when it is called, and the
\* value returned
initialize_admin_user(list, t) ==
    IF get_user_by_email(list, ADMIN_EMAIL) = 0
    THEN LET r == save_user(list,
                            [email |-> ADMIN_EMAIL, name |-> ADMIN_NAME,
                             hashed_password |-> get_password_hash(ADMIN_PASSWORD),
                             is_admin |-> TRUE, is_active |-> TRUE], t)
         IN [list |-> r.list, ret |-> r.ret, appended |-> r.appended, created |-> TRUE]
    ELSE [created |-> FALSE]

\* verify_password: pwd_context.verify raises UnknownHashError for a stored
\* value that is not a hash, such as the default "" of a record without
\* hashed_password
NoHash == <<>>
verify_password(plain_password, hashed_password) ==
    IF hashed_password = NoHash THEN Raise("UnknownHashError")
    ELSE Value(hashed_password = get_password_hash(plain_password))

\* authenticate_user that does not look at the password
authenticate_user_unverified(list, email, password) ==
    LET i == get_user_by_email(list, email)
    IN IF i = 0 THEN PyNone ELSE Value(list[i])

\* authenticate_user: the user, None, or the exception of verify_password
authenticate_user(list, email, password) ==
    LET i == get_user_by_email(list, email)
    IN IF i = 0 THEN PyNone
       ELSE LET v == verify_password(password, Get(list[i], "hashed_password", NoHash))
            IN IF v.kind = "raise" THEN v
               ELSE IF ~v.val THEN PyNone
               ELSE Value(list[i])

\* jwt.decode(token, settings.SECRET_KEY, algorithms=[settings.ALGORITHM]):
\* the claims, or JWTError for a string that is not a token or a signature
\* made with another key, or its subclass ExpiredSignatureError for an exp
\* that has passed
jwt_decode(token, key, t) ==
    IF token.form # "jws" THEN Raise("JWTError")
    ELSE IF token.key # key THEN Raise("JWTError")
    ELSE IF "exp" \in DOMAIN token.claims /\ token.claims.exp < utcnow(t)
         THEN Raise("ExpiredSignatureError")
    ELSE Value(token.claims)

\* the exception of get_current_user
credentials_exception == [status |-> 401, detail |-> "Could not validate credentials"]

\* get_current_user that tells an expired token from the other failures
get_current_user_telling(list, token, t) ==
    LET payload == jwt_decode(token, SECRET_KEY, t)
    IN IF payload.kind = "raise"
       THEN IF payload.error = "ExpiredSignatureError"
            THEN [status |-> 401, detail |-> "Token has expired"]
            ELSE credentials_exception
       ELSE IF "sub" \notin DOMAIN payload.val THEN credentials_exception
       ELSE LET i == get_user_by_email(list, payload.val.sub)
            IN IF i = 0 THEN credentials_exception ELSE Value(list[i])

\* get_current_user: the user, or the HTTPException raised
get_current_user(list, token, t) ==
    LET payload == jwt_decode(token, SECRET_KEY, t)
    IN IF payload.kind = "raise" THEN credentials_exception
       ELSE IF "sub" \notin DOMAIN payload.val THEN credentials_exception
       ELSE LET i == get_user_by_email(list, payload.val.sub)
            IN IF i = 0 THEN credentials_exception ELSE Value(list[i])

\* a dependency gave a user
Accepted(r) == "val" \in DOMAIN r

\* get_current_active_user: Depends(get_current_user)
get_current_active_user(list, token, t) ==
    LET current_user == get_current_user(list, token, t)
    IN IF ~Accepted(current_user) THEN current_user
       ELSE IF ~Get(current_user.val, "is_active", TRUE)
            THEN [status |-> 400, detail |-> "Inactive user"]
       ELSE current_user

\* get_current_admin_user that depends on get_current_user
get_current_admin_user_direct(list, token, t) ==
    LET current_user == get_current_user(list, token, t)
    IN IF ~Accepted(current_user) THEN current_user
       ELSE IF ~Get(current_user.val, "is_admin", FALSE)
            THEN [status |-> 403, detail |-> "Not enough permissions"]
       ELSE current_user

\* get_current_admin_user: Depends(get_current_active_user)
get_current_admin_user(list, token, t) ==
    LET current_user == get_current_active_user(list, token, t)
    IN IF ~Accepted(current_user) THEN current_user
       ELSE IF ~Get(current_user.val, "is_admin", FALSE)
            THEN [status |-> 403, detail |-> "Not enough permissions"]
       ELSE current_user

(* ------------------------- handlers (main.py) -------------------------- *)

\* a request without an Authorization header
NoToken == [form |-> "absent", key |-> "", claims |-> EmptyDict]

\* response_model=UserSchema: the fields of the schema, with its defaults;
\* a record without a required field fails the validation of the response
UserSchema(u) ==
    IF ~({"email", "name", "id", "created_at"} \subseteq DOMAIN u)
    THEN Raise("ResponseValidationError")
    ELSE Value([email |-> u.email, name |-> u.name,
                is_active |-> Get(u, "is_active", TRUE),
                is_admin |-> Get(u, "is_admin", FALSE),
                id |-> u.id, created_at |-> u.created_at,
                updated_at |-> Get(u, "updated_at", None)])

\* get_users: Depends(get_current_admin_user), which through oauth2_scheme
\* answers 401 to a request without the header
get_users(list, token, t) ==
    LET current_user == get_current_admin_user(list, token, t)
    IN IF token = NoToken THEN Err(401, "Not authenticated")
       ELSE IF ~Accepted(current_user) THEN current_user
       ELSE IF \E i \in 1..Len(list) : UserSchema(list[i]).kind = "raise"
            THEN Err(500, "Internal Server Error")
       ELSE [status |-> 200, body |-> [i \in 1..Len(list) |-> UserSchema(list[i]).val]]

\* debug_list_users: no dependency and no response model
debug_list_users(list) ==
    [status |-> 200, body |-> [user_count |-> Len(list), users |-> list]]

\* create_client
create_client(list, client, t) == Ok(save_client(list, client, t))

\* update_client that stores the supplied fields in place of the record
update_client_replace(list, client_id, update_data, t) ==
    LET i == get_client_by_id(list, client_id)
    IN IF i = 0
       THEN Err(404, "Client not found")
       ELSE Ok(save_client(list, With(update_data, "id", client_id), t))

\* update_client
update_client(list, client_id, update_data, t) ==
    LET i == get_client_by_id(list, client_id)
    IN IF i = 0
       THEN Err(404, "Client not found")
       ELSE Ok(save_client(list, Update(list[i], update_data), t))

\* the handlers delete_client and delete_invoice, for the result of the
\* FileDatabase method
delete_handler(r, detail) ==
    IF r.ret THEN [status |-> 200, list |-> r.list] ELSE Err(404, detail)

\* login_for_access_token: what authenticate_user gave, and the response;
\* the token of a successful login carries the email as its subject
\* login_for_access_token that does not look at is_active
login_for_access_token_any(list, username, password, t) ==
    LET user == authenticate_user(list, username, password)
    IN [auth |-> user,
        response |->
            IF user.kind = "raise" THEN Err(500, "Login failed due to server error")
            ELSE IF user.kind = "None" THEN Err(401, "Incorrect email or password")
            ELSE [status |-> 200,
                  access_token |-> create_access_token([sub |-> user.val.email], t),
                  token_type |-> "bearer"]]

login_for_access_token(list, username, password, t) ==
    LET user == authenticate_user(list, username, password)
    IN [auth |-> user,
        response |->
            IF user.kind = "raise" THEN Err(500, "Login failed due to server error")
            ELSE IF user.kind = "None" THEN Err(401, "Incorrect email or password")
            ELSE IF ~Get(user.val, "is_active", TRUE) THEN Err(400, "Inactive user")
            ELSE [status |-> 200,
                  access_token |-> create_access_token([sub |-> user.val.email], t),
                  token_type |-> "bearer"]]

\* get_dashboard_stats: inv["created_at"] raises KeyError for an invoice
\* without the key. DashboardStats (schemas.py) requires total_amount and
\* overdue_invoices, which the handler does not pass (it passes total_revenue
\* and monthly_revenue, which DashboardStats does not have), so constructing
\* the response raises ValidationError and the list built is lost.
get_dashboard_stats(us, cs, invs, t) ==
    IF \E i \in 1..Len(invs) : "created_at" \notin DOMAIN invs[i]
    THEN [out |-> Raise("KeyError")]
    ELSE [out |-> Raise("ValidationError"),
          built |-> [stats |-> get_stats(us, cs, invs, sum(TotalAmounts(invs))),
                     monthly_revenue |-> monthly_revenue(invs, YearOf(t))]]

\* create_invoice: generate_invoice_number is defined with one parameter and
\* called with none, so the call raises TypeError and the request fails
create_invoice(list, invoice, current_user, t) ==
    LET invoice_data == With(invoice, "created_by", current_user.id)
    IN IF Get(invoice_data, "invoice_number", <<>>) = <<>>
       THEN Err(500, "TypeError")
       ELSE Ok(save_invoice(list, invoice_data, t))

\* update_invoice
update_invoice(list, invoice_id, update_data, t) ==
    LET i == get_invoice_by_id(list, invoice_id)
    IN IF i = 0
       THEN Err(404, "Invoice not found")
       ELSE Ok(save_invoice(list, Update(list[i], update_data), t))

(* ------------------------------ state ---------------------------------- *)

Procs == 1..NumProcs
Idle == [pc |-> "idle"]

Coll(c) == IF c = "users" THEN users ELSE IF c = "clients" THEN clients ELSE invoices

Call(op, c, arg, ret) == [op |-> op, coll |-> c, arg |-> arg, ret |-> ret]

\* what a call returned, without the list it wrote
Res(r) == [x \in DOMAIN r \ {"list"} |-> r[x]]

\* the list a call leaves in the collection
After(list, r) == IF "list" \in DOMAIN r THEN r.list ELSE list

\* a call on collection c with result r: the file of c is rewritten when the
\* call writes, the other files are not touched, the call and the id of an
\* appended record are recorded
Done(op, c, arg, r) ==
    /\ users' = IF c = "users" THEN After(users, r) ELSE users
    /\ clients' = IF c = "clients" THEN After(clients, r) ELSE clients
    /\ invoices' = IF c = "invoices" THEN After(invoices, r) ELSE invoices
    /\ last' = Call(op, c, arg, Res(r))
    /\ ever' = IF Get(r, "appended", FALSE)
               THEN [ever EXCEPT !.ids[c] = @ \cup {r.ret.id},
                                 !.generated = IF op = "create_invoice" /\ arg.invoice_number = <<>>
                                               THEN @ \cup {int(SplitLast(r.ret.invoice_number))}
                                               ELSE @]
               ELSE ever
    /\ UNCHANGED <<now, focus, torn, proc, backend, disk>>

\* an append is explored while the collection has room
Room(list, data, k, dflt) ==
    FirstMatch(list, k, Get(data, k, dflt), dflt) > 0 \/ Len(list) < MaxLen

Init ==
    /\ users = <<>>
    /\ clients = <<>>
    /\ invoices = <<>>
    /\ now = 0
    /\ focus \in Colls
    /\ last = Call("init", focus, <<>>, <<>>)
    /\ ever = [ids |-> [c \in Colls |-> {}], generated |-> {}, calls |-> 0]
    /\ torn = {}
    /\ proc = [p \in Procs |-> Idle]
    /\ backend = [class |-> "FileDatabase", data |-> "dict"]
    /\ disk = [kind |-> [c \in Colls |-> "text"], fails |-> FALSE]

\* time passes between two calls
Tick ==
    /\ now < MaxTime
    /\ now' = now + 1
    /\ UNCHANGED <<users, clients, invoices, focus, last, ever, torn, proc, backend, disk>>

(* ------------------- calls of the FileDatabase methods ----------------- *)

db_save_user ==
    \E d \in UserDicts :
        /\ focus = "users"
        /\ Room(users, d, "email", NoneStr)
        /\ Done("save_user", "users", d, save_user(users, d, now))

db_save_client ==
    \E d \in ClientDicts :
        /\ focus = "clients"
        /\ Room(clients, d, "id", None)
        /\ Done("save_client", "clients", d, save_client(clients, d, now))

db_save_invoice ==
    \E d \in InvoiceDicts :
        /\ focus = "invoices"
        /\ Room(invoices, d, "id", None)
        /\ Done("save_invoice", "invoices", d, save_invoice(invoices, d, now))

db_delete_user ==
    \E e \in Emails :
        /\ focus = "users"
        /\ Done("delete_user", "users", e, delete_user(users, e))

db_delete_client ==
    \E i \in AskedIds :
        /\ focus = "clients"
        /\ Done("delete_client", "clients", i, delete_client(clients, i))

db_delete_invoice ==
    \E i \in AskedIds :
        /\ focus = "invoices"
        /\ Done("delete_invoice", "invoices", i, delete_invoice(invoices, i))

(* --------------------------- calls of the API -------------------------- *)

do_create_user ==
    \E e \in Emails, n \in UserNames, pw \in Passwords :
        /\ focus = "users"
        /\ Room(users, [email |-> e], "email", NoneStr)
        /\ Done("create_user", "users", [email |-> e, name |-> n, password |-> pw],
                create_user(users, e, n, pw, FALSE, now))

do_initialize_admin_user ==
    /\ focus = "users"
    /\ Room(users, [email |-> ADMIN_EMAIL], "email", NoneStr)
    /\ Done("initialize_admin_user", "users", EmptyDict, initialize_admin_user(users, now))

do_create_client ==
    \E c \in ClientCreates :
        /\ focus = "clients"
        /\ Len(clients) < MaxLen
        /\ Done("create_client", "clients", c, create_client(clients, c, now))

do_update_client ==
    \E i \in AskedIds, u \in ClientUpdates :
        /\ focus = "clients"
        /\ Done("update_client", "clients", [id |-> i, data |-> u],
             update_client(clients, i, u, now))

do_delete_client ==
    \E i \in AskedIds :
        /\ focus = "clients"
        /\ Done("delete_client_api", "clients", i,
             delete_handler(delete_client(clients, i), "Client not found"))

do_create_invoice ==
    \E inv \in InvoiceCreates, cu \in CurrentUsers :
        /\ focus = "invoices"
        /\ Len(invoices) < MaxLen
        /\ Done("create_invoice", "invoices", inv, create_invoice(invoices, inv, cu, now))

do_update_invoice ==
    \E i \in AskedIds, u \in InvoiceUpdates :
        /\ focus = "invoices"
        /\ Done("update_invoice", "invoices", [id |-> i, data |-> u],
             update_invoice(invoices, i, u, now))

do_delete_invoice ==
    \E i \in AskedIds :
        /\ focus = "invoices"
        /\ Done("delete_invoice_api", "invoices", i,
             delete_handler(delete_invoice(invoices, i), "Invoice not found"))

do_login ==
    \E e \in Emails, pw \in Passwords \cup {ADMIN_PASSWORD} :
        /\ focus = "users"
        /\ last' = Call("login", "users", [email |-> e, password |-> pw],
                        login_for_access_token(users, e, pw, now))
        /\ UNCHANGED <<users, clients, invoices, now, focus, ever, torn, proc, backend, disk>>

\* a direct call of save_user that stores an account
db_save_account ==
    \E d \in AccountDicts :
        /\ focus = "users"
        /\ Room(users, d, "email", NoneStr)
        /\ Done("save_user", "users", d, save_user(users, d, now))

\* a request that carries a token, at each of the three dependencies
do_get_current_user ==
    \E token \in Tokens(now) :
        /\ focus = "users"
        /\ last' = Call("get_current_user", "users", token,
                        get_current_user(users, token, now))
        /\ UNCHANGED <<users, clients, invoices, now, focus, ever, torn, proc, backend, disk>>

do_get_current_active_user ==
    \E token \in Tokens(now) :
        /\ focus = "users"
        /\ last' = Call("get_current_active_user", "users", token,
                        get_current_active_user(users, token, now))
        /\ UNCHANGED <<users, clients, invoices, now, focus, ever, torn, proc, backend, disk>>

do_get_current_admin_user ==
    \E token \in Tokens(now) :
        /\ focus = "users"
        /\ last' = Call("get_current_admin_user", "users", token,
                        get_current_admin_user(users, token, now))
        /\ UNCHANGED <<users, clients, invoices, now, focus, ever, torn, proc, backend, disk>>

\* a direct call of save_invoice that stores an invoice with a status and
\* an amount
db_save_stat_invoice ==
    \E d \in StatDicts :
        /\ focus = "invoices"
        /\ Room(invoices, d, "id", None)
        /\ Done("save_invoice", "invoices", d, save_invoice(invoices, d, now))

\* get_stats: sum() adds the amounts one after the other, or with the
\* correction of CPython 3.12 and later
do_get_stats ==
    \E total \in {sum(TotalAmounts(invoices)), sum_compensated(TotalAmounts(invoices))} :
        /\ focus = "invoices"
        /\ Done("get_stats", "invoices", <<>>, get_stats(users, clients, invoices, total))

do_get_dashboard_stats ==
    /\ focus = "invoices"
    /\ Done("get_dashboard_stats", "invoices", <<>>,
            get_dashboard_stats(users, clients, invoices, now))

\* a FileDatabase method called on a store that holds the three collections
\* together
OnStore(op, c, arg) ==
    LET r == FileDatabase_method([users |-> users, clients |-> clients,
                                  invoices |-> invoices], op, arg, now)
    IN /\ \A x \in Colls : Len(r.store[x]) <= MaxLen
       /\ users' = r.store.users
       /\ clients' = r.store.clients
       /\ invoices' = r.store.invoices
       /\ last' = Call(op, c, arg, [ret |-> r.ret])
       /\ UNCHANGED <<now, focus, ever, torn, proc, backend, disk>>

fd_save_user ==
    \E d \in {u \in SaveDicts("users") : u.email = ADMIN_EMAIL} :
        Len(users) <= MaxLen /\ OnStore("save_user", "users", d)

fd_save_client ==
    \E d \in SaveDicts("clients") : Len(clients) <= MaxLen /\ OnStore("save_client", "clients", d)

\* an invoice is saved for a stored client
fd_save_invoice ==
    \E d \in {x \in ClientInvoices : \E i \in 1..Len(clients) : clients[i].id = x.client_id} :
        Len(invoices) <= MaxLen /\ OnStore("save_invoice", "invoices", d)

fd_delete_user ==
    \E e \in {ADMIN_EMAIL} : Len(users) <= MaxLen /\ OnStore("delete_user", "users", e)

fd_delete_client ==
    \E i \in AskedIds : Len(clients) <= MaxLen /\ OnStore("delete_client", "clients", i)

fd_delete_invoice ==
    \E i \in AskedIds : Len(invoices) <= MaxLen /\ OnStore("delete_invoice", "invoices", i)

\* the two requests that list the users, with any token or without one
do_get_users ==
    \E token \in Tokens(now) \cup {NoToken} :
        /\ focus = "users"
        /\ last' = Call("get_users", "users", token, get_users(users, token, now))
        /\ UNCHANGED <<users, clients, invoices, now, focus, ever, torn, proc, backend, disk>>

do_debug_list_users ==
    \E token \in Tokens(now) \cup {NoToken} :
        /\ focus = "users"
        /\ last' = Call("debug_list_users", "users", token, debug_list_users(users))
        /\ UNCHANGED <<users, clients, invoices, now, focus, ever, torn, proc, backend, disk>>

(* ---------------- processes serving requests together ----------------- *)

\* _read_json: a file that does not parse reads as the empty list
read_json(c) == IF c \in torn THEN <<>> ELSE Coll(c)

SetFile(c, list) ==
    /\ users' = IF c = "users" THEN list ELSE users
    /\ clients' = IF c = "clients" THEN list ELSE clients
    /\ invoices' = IF c = "invoices" THEN list ELSE invoices

\* create_user, up to the call of save_user: get_user_by_email reads the file
start_create_user(p) ==
    \E e \in Emails, n \in UserNames, pw \in Passwords :
        /\ focus = "users"
        /\ proc[p].pc = "idle"
        /\ ever.calls < MaxCalls
        /\ proc' = [proc EXCEPT ![p] =
              IF get_user_by_email(read_json("users"), e) > 0
              THEN [pc |-> "done", op |-> "create_user", key |-> e,
                    ret |-> Err(400, "Email already registered")]
              ELSE [pc |-> "read", op |-> "create_user", key |-> e,
                    data |-> [email |-> e, name |-> n,
                              hashed_password |-> get_password_hash(pw),
                              is_admin |-> FALSE, is_active |-> TRUE]]]
        /\ ever' = [ever EXCEPT !.calls = @ + 1]
        /\ UNCHANGED <<users, clients, invoices, now, focus, last, torn, backend, disk>>

\* initialize_admin_user, up to the call of save_user
start_initialize_admin_user(p) ==
    /\ focus = "users"
    /\ proc[p].pc = "idle"
    /\ ever.calls < MaxCalls
    /\ proc' = [proc EXCEPT ![p] =
          IF get_user_by_email(read_json("users"), ADMIN_EMAIL) = 0
          THEN [pc |-> "read", op |-> "initialize_admin_user", key |-> ADMIN_EMAIL,
                data |-> [email |-> ADMIN_EMAIL, name |-> ADMIN_NAME,
                          hashed_password |-> get_password_hash(ADMIN_PASSWORD),
                          is_admin |-> TRUE, is_active |-> TRUE]]
          ELSE [pc |-> "done", op |-> "initialize_admin_user", key |-> ADMIN_EMAIL,
                ret |-> FALSE]]
    /\ ever' = [ever EXCEPT !.calls = @ + 1]
    /\ UNCHANGED <<users, clients, invoices, now, focus, last, torn, backend, disk>>

\* a direct call of save_user
start_save_user(p) ==
    \E d \in {u \in UserDicts : "id" \notin DOMAIN u} :
        /\ focus = "users"
        /\ proc[p].pc = "idle"
        /\ ever.calls < MaxCalls
        /\ proc' = [proc EXCEPT ![p] =
              [pc |-> "read", op |-> "save_user", key |-> d.email, data |-> d]]
        /\ ever' = [ever EXCEPT !.calls = @ + 1]
        /\ UNCHANGED <<users, clients, invoices, now, focus, last, torn, backend, disk>>

\* save_user, from get_users() to the list it is about to write
save_user_read(p) ==
    /\ proc[p].pc = "read"
    /\ Room(read_json("users"), proc[p].data, "email", NoneStr)
    /\ LET r == save_user(read_json("users"), proc[p].data, now)
       IN proc' = [proc EXCEPT ![p] =
             [pc |-> "open", op |-> proc[p].op, key |-> proc[p].key,
              towrite |-> r.list, ret |-> r.ret]]
    /\ UNCHANGED <<users, clients, invoices, now, focus, last, ever, torn, backend, disk>>

\* delete_user, from get_users() to the list it is about to write
delete_user_read(p) ==
    \E e \in Emails :
        /\ focus = "users"
        /\ proc[p].pc = "idle"
        /\ ever.calls < MaxCalls
        /\ LET r == delete_user(read_json("users"), e)
           IN proc' = [proc EXCEPT ![p] =
                 IF r.ret
                 THEN [pc |-> "open", op |-> "delete_user", key |-> e,
                       towrite |-> r.list, ret |-> TRUE]
                 ELSE [pc |-> "done", op |-> "delete_user", key |-> e, ret |-> FALSE]]
        /\ ever' = [ever EXCEPT !.calls = @ + 1]
        /\ UNCHANGED <<users, clients, invoices, now, focus, last, torn, backend, disk>>

\* save_client / save_invoice of a dict without id, from get_clients() or
\* get_invoices() to the list it is about to write
save_record_read(p) ==
    \E d \in SaveDicts(focus) :
        /\ focus \in {"clients", "invoices"}
        /\ proc[p].pc = "idle"
        /\ ever.calls < MaxCalls
        /\ Len(read_json(focus)) < MaxLen
        /\ LET r == FileDatabase_upsert(focus, read_json(focus), d, now)
           IN proc' = [proc EXCEPT ![p] =
                 [pc |-> "open", op |-> "save", key |-> r.ret.id,
                  towrite |-> r.list, ret |-> r.ret]]
        /\ ever' = [ever EXCEPT !.calls = @ + 1]
        /\ UNCHANGED <<users, clients, invoices, now, focus, last, torn, backend, disk>>

\* update_client / update_invoice, up to the call of save_client or
\* save_invoice: get_client_by_id or get_invoice_by_id reads the file. key
\* holds the id asked for and the number of records read.
start_update_record(p) ==
    \E k \in AskedIds, u \in (IF focus = "clients" THEN ClientUpdates ELSE InvoiceUpdates) :
        /\ focus \in {"clients", "invoices"}
        /\ proc[p].pc = "idle"
        /\ ever.calls < MaxCalls
        /\ LET list == read_json(focus)
               i == FirstMatch(list, "id", k, None)
           IN proc' = [proc EXCEPT ![p] =
                 IF i = 0
                 THEN [pc |-> "done", op |-> "update", key |-> [id |-> k, len |-> Len(list)],
                       ret |-> Err(404, IF focus = "clients" THEN "Client not found"
                                        ELSE "Invoice not found")]
                 ELSE [pc |-> "found", op |-> "update", key |-> [id |-> k, len |-> Len(list)],
                       data |-> Update(list[i], u)]]
        /\ ever' = [ever EXCEPT !.calls = @ + 1]
        /\ UNCHANGED <<users, clients, invoices, now, focus, last, torn, backend, disk>>

\* save_client / save_invoice of the updated dict, from get_clients() or
\* get_invoices() to the list it is about to write
update_record_save(p) ==
    /\ proc[p].pc = "found"
    /\ Room(read_json(focus), proc[p].data, "id", None)
    /\ LET r == FileDatabase_upsert(focus, read_json(focus), proc[p].data, now)
       IN proc' = [proc EXCEPT ![p] =
             [pc |-> "open", op |-> proc[p].op, key |-> proc[p].key,
              towrite |-> r.list, ret |-> r.ret]]
    /\ UNCHANGED <<users, clients, invoices, now, focus, last, ever, torn, backend, disk>>

\* delete_client / delete_invoice, from get_clients() or get_invoices() to
\* the list it is about to write
delete_record_read(p) ==
    \E k \in AskedIds :
        /\ focus \in {"clients", "invoices"}
        /\ proc[p].pc = "idle"
        /\ ever.calls < MaxCalls
        /\ LET list == read_json(focus)
               r == Delete(list, "id", k, None)
           IN proc' = [proc EXCEPT ![p] =
                 IF r.ret
                 THEN [pc |-> "open", op |-> "delete", key |-> [id |-> k, len |-> Len(list)],
                       towrite |-> r.list, ret |-> TRUE]
                 ELSE [pc |-> "done", op |-> "delete", key |-> [id |-> k, len |-> Len(list)],
                       ret |-> FALSE]]
        /\ ever' = [ever EXCEPT !.calls = @ + 1]
        /\ UNCHANGED <<users, clients, invoices, now, focus, last, torn, backend, disk>>

\* json.dump(data, f, indent=2, default=str) of a list of user records: the
\* number of characters written. A string takes its length and two quotes,
\* true 4 and false 5, an id its digits, a timestamp of isoformat() 26 and
\* two quotes, a bcrypt hash 60 and two quotes; a field line adds the
\* indentation, the quoted key, the colon and the separator.
ValueWidth(f, v) ==
    IF f \in {"email", "name"} THEN Len(v) + 2
    ELSE IF f \in {"is_active", "is_admin"} THEN IF v THEN 4 ELSE 5
    ELSE IF f = "id" THEN IF v < 10 THEN 1 ELSE 2
    ELSE IF f \in {"created_at", "updated_at"} THEN 28
    ELSE 62

RECURSIVE RecordWidth(_, _)
RecordWidth(u, fields) ==
    IF fields = {} THEN 6
    ELSE LET f == CHOOSE x \in fields : TRUE
         IN Len(f) + 10 + ValueWidth(f, u[f]) + RecordWidth(u, fields \ {f})

RECURSIVE TextWidth(_)
TextWidth(list) ==
    IF list = <<>> THEN 2
    ELSE IF Len(list) = 1 THEN 4 + RecordWidth(list[1], DOMAIN list[1])
    ELSE 2 + RecordWidth(list[1], DOMAIN list[1]) + TextWidth(Tail(list))

\* _write_json, open(file_path, 'w'): the file is truncated
write_open(p) ==
    /\ proc[p].pc = "open"
    /\ SetFile(focus, <<>>)
    /\ torn' = torn \cup {focus}
    /\ proc' = [proc EXCEPT ![p] =
          [pc |-> "dump", op |-> proc[p].op, key |-> proc[p].key,
           towrite |-> proc[p].towrite, ret |-> proc[p].ret]]
    /\ UNCHANGED <<now, focus, last, ever, backend, disk>>

\* _write_json, json.dump and close: the text is written from the start of
\* the file. An empty file (this process or a later one truncated it) then
\* holds this list. A file in which another process has written since holds
\* this list when its text is at least as long as the text there, and does
\* not parse when it is shorter: the end of the longer text stays behind it
\* (the collection then keeps the longer list, for the length of the file).
\* The records of clients and of invoices have the same fields and widths,
\* so the longer list has the longer text; user records differ, and the
\* widths of the two texts are compared for them.
write_dump(p) ==
    /\ proc[p].pc = "dump"
    /\ \/ /\ \/ Coll(focus) = <<>>
                \/ (focus = "users" /\ TextWidth(Coll(focus)) <= TextWidth(proc[p].towrite))
                \/ (focus # "users" /\ Len(Coll(focus)) <= Len(proc[p].towrite))
          /\ SetFile(focus, proc[p].towrite)
          /\ torn' = torn \ {focus}
       \/ /\ Coll(focus) # <<>>
          /\ \/ (focus = "users" /\ TextWidth(proc[p].towrite) < TextWidth(Coll(focus)))
             \/ (focus # "users" /\ Len(proc[p].towrite) < Len(Coll(focus)))
          /\ SetFile(focus, Coll(focus))
          /\ torn' = torn \cup {focus}
    /\ proc' = [proc EXCEPT ![p] =
          [pc |-> "done", op |-> proc[p].op, key |-> proc[p].key,
           ret |-> proc[p].ret, wrote |-> TRUE]]
    /\ UNCHANGED <<now, focus, last, ever, backend, disk>>

\* the call returns
return(p) ==
    /\ proc[p].pc = "done"
    /\ proc' = [proc EXCEPT ![p] = Idle]
    /\ UNCHANGED <<users, clients, invoices, now, focus, last, ever, torn, backend, disk>>

(* ------------- the storage classes and the files they use -------------- *)

\* FileDatabase (database_file.py), NetlifyDatabase (database_netlify.py) and
\* JSONDatabase (database_json.py). JSONDatabase reads its file once, when it
\* is constructed, and serves every call from its data attribute: for it
\* users, clients and invoices are data["users"], data["clients"] and
\* data["invoices"].
Backends == {"FileDatabase", "NetlifyDatabase", "JSONDatabase"}

\* what a file holds: text (the list of the collection, or text that does
\* not parse when the collection is in torn), bytes that do not decode as
\* text, or nothing because the file does not exist
FileKinds == {"text", "bytes", "absent"}

\* with open(file_path, 'r') as f: json.load(f)
json_load(c) ==
    IF disk.kind[c] = "absent" THEN Raise("FileNotFoundError")
    ELSE IF disk.kind[c] = "bytes" THEN Raise("UnicodeDecodeError")
    ELSE IF c \in torn THEN Raise("JSONDecodeError")
    ELSE Value(Coll(c))

\* FileDatabase._read_json
FileDatabase_read_json(c) ==
    LET r == json_load(c)
    IN IF r.kind = "raise" /\ r.error \in {"FileNotFoundError", "JSONDecodeError"}
       THEN Value(<<>>)
       ELSE r

\* NetlifyDatabase._read_json: the file is opened only when it exists, and
\* the function ends without a return statement when it does not
NetlifyDatabase_read_json(c) ==
    IF disk.kind[c] = "absent" THEN PyNone
    ELSE LET r == json_load(c)
         IN IF r.kind = "raise" THEN Value(<<>>) ELSE r

\* JSONDatabase._load_data, as the value of the data attribute: None for a
\* file that does not exist, the dict of empty lists for a file that does
\* not load
JSONDatabase_load_data(c) ==
    IF disk.kind[c] = "absent" THEN "None" ELSE "dict"

\* JSONDatabase.get_users / get_clients / get_invoices: self.data.get(...)
JSONDatabase_get(c) ==
    IF backend.data = "None" THEN Raise("AttributeError") ELSE Value(Coll(c))

\* get_users / get_clients / get_invoices of the storage object
get_all(c) ==
    IF backend.class = "FileDatabase" THEN FileDatabase_read_json(c)
    ELSE IF backend.class = "NetlifyDatabase" THEN NetlifyDatabase_read_json(c)
    ELSE JSONDatabase_get(c)

\* get_user_by_email of the storage object: for user in users raises
\* TypeError when users is None
lookup_user_by_email(email) ==
    LET r == get_all("users")
    IN IF r.kind = "raise" THEN r
       ELSE IF r.kind = "None" THEN Raise("TypeError")
       ELSE LET i == get_user_by_email(r.val, email)
            IN IF i = 0 THEN PyNone ELSE Value(r.val[i])

\* FileDatabase.save_*: what the caller gets (out), what becomes of the file
\* (same, written with list, or torn when the write stops part-way) and
\* whether the write failed. _write_json lets the error of open or of
\* json.dump reach the caller.
FileDatabase_save(c, data, t, midway) ==
    LET rd == FileDatabase_read_json(c)
    IN IF rd.kind = "raise" THEN [out |-> rd, file |-> "same", failed |-> FALSE]
       ELSE LET r == FileDatabase_upsert(c, rd.val, data, t)
            IN IF disk.fails
               THEN [out |-> Raise("OSError"), file |-> IF midway THEN "torn" ELSE "same",
                     failed |-> TRUE]
               ELSE [out |-> Value(r.ret), file |-> "written", list |-> r.list,
                     failed |-> FALSE]

\* NetlifyDatabase.save_user drops the records with the email and appends;
\* save_client and save_invoice append. _write_json prints the error of a
\* failed write and returns.
NetlifyDatabase_save(c, data, midway) ==
    LET rd == NetlifyDatabase_read_json(c)
    IN IF rd.kind = "None"
       THEN [out |-> Raise(IF c = "users" THEN "TypeError" ELSE "AttributeError"),
             file |-> "same", failed |-> FALSE]
       ELSE LET list == IF c = "users"
                        THEN Append(Without(rd.val, "email", Get(data, "email", NoneStr), NoneStr),
                                    data)
                        ELSE Append(rd.val, data)
            IN IF disk.fails
               THEN [out |-> PyNone, file |-> IF midway THEN "torn" ELSE "same", failed |-> TRUE]
               ELSE [out |-> PyNone, file |-> "written", list |-> list, failed |-> FALSE]

\* JSONDatabase.save_user replaces the first record with the email or
\* appends; save_client and save_invoice append. The list is put in
\* self.data; _save_data prints the error of a failed write and returns.
JSONDatabase_save(c, data) ==
    LET rd == JSONDatabase_get(c)
    IN IF rd.kind = "raise" THEN [out |-> rd, file |-> "same", failed |-> FALSE]
       ELSE LET i == IF c = "users"
                     THEN FirstMatch(rd.val, "email", Get(data, "email", NoneStr), NoneStr)
                     ELSE 0
                list == IF i > 0 THEN [rd.val EXCEPT ![i] = data] ELSE Append(rd.val, data)
            IN IF disk.fails
               THEN [out |-> PyNone, file |-> "same", list |-> list, failed |-> TRUE]
               ELSE [out |-> PyNone, file |-> "written", list |-> list, failed |-> FALSE]

\* save_user / save_client / save_invoice of the storage object
storage_save(c, data, t, midway) ==
    IF backend.class = "FileDatabase" THEN FileDatabase_save(c, data, t, midway)
    ELSE IF backend.class = "NetlifyDatabase" THEN NetlifyDatabase_save(c, data, midway)
    ELSE JSONDatabase_save(c, data)

\* a call on the storage object: the collection and its file after the call
Stored(op, c, arg, r) ==
    /\ "list" \in DOMAIN r => Len(r.list) <= MaxLen
    /\ SetFile(c, IF r.file = "torn" THEN <<>>
                  ELSE IF "list" \in DOMAIN r THEN r.list ELSE Coll(c))
    /\ torn' = IF r.file = "torn" THEN torn \cup {c}
               ELSE IF r.file = "written" THEN torn \ {c} ELSE torn
    /\ disk' = IF r.file = "same" THEN disk ELSE [disk EXCEPT !.kind[c] = "text"]
    /\ last' = Call(op, c, arg, [out |-> r.out, failed |-> r.failed])
    /\ UNCHANGED <<now, focus, ever, proc, backend>>

st_get_all ==
    /\ focus \in Colls
    /\ Stored("get_all", focus, <<>>,
              [out |-> get_all(focus), file |-> "same", failed |-> FALSE])

st_get_user_by_email ==
    \E e \in Emails :
        /\ focus = "users"
        /\ Stored("get_user_by_email", "users", e,
                  [out |-> lookup_user_by_email(e), file |-> "same", failed |-> FALSE])

st_save ==
    \E d \in SaveDicts(focus), midway \in BOOLEAN :
        Stored("save", focus, d, storage_save(focus, d, now, midway))

\* the file of the collection is removed
env_remove_file ==
    /\ backend.class # "JSONDatabase"
    /\ disk.kind[focus] # "absent"
    /\ SetFile(focus, <<>>)
    /\ torn' = torn \ {focus}
    /\ disk' = [disk EXCEPT !.kind[focus] = "absent"]
    /\ last' = Call("remove_file", focus, <<>>, <<>>)
    /\ UNCHANGED <<now, focus, ever, proc, backend>>

\* the content of the file is damaged: text that does not parse, or bytes
\* that are not text
env_damage_file ==
    \E k \in {"text", "bytes"} :
        /\ backend.class # "JSONDatabase"
        /\ disk.kind[focus] # "absent"
        /\ SetFile(focus, <<>>)
        /\ torn' = IF k = "text" THEN torn \cup {focus} ELSE torn \ {focus}
        /\ disk' = [disk EXCEPT !.kind[focus] = k]
        /\ last' = Call("damage_file", focus, k, <<>>)
        /\ UNCHANGED <<now, focus, ever, proc, backend>>

\* the disk starts or stops refusing writes (full, read-only, no permission)
env_disk_fails ==
    /\ disk' = [disk EXCEPT !.fails = ~disk.fails]
    /\ last' = Call("disk_fails", focus, ~disk.fails, <<>>)
    /\ UNCHANGED <<users, clients, invoices, now, focus, ever, torn, proc, backend>>

\* the storage object is constructed: FileDatabase and NetlifyDatabase write
\* [] to each file that does not exist, JSONDatabase loads its file, which
\* exists when an earlier run wrote it
InitStorage ==
    /\ users = <<>>
    /\ clients = <<>>
    /\ invoices = <<>>
    /\ now = 0
    /\ focus \in Colls
    /\ last = Call("init", focus, <<>>, <<>>)
    /\ ever = [ids |-> [c \in Colls |-> {}], generated |-> {}, calls |-> 0]
    /\ torn = {}
    /\ proc = [p \in Procs |-> Idle]
    /\ \E cls \in Backends, k \in {"text", "absent"} :
          /\ cls # "JSONDatabase" => k = "text"
          /\ disk = [kind |-> [c \in Colls |-> k], fails |-> FALSE]
          /\ backend = [class |-> cls,
                        data |-> IF cls = "JSONDatabase" THEN JSONDatabase_load_data(focus)
                                 ELSE "dict"]

(* --------------------------- specifications ---------------------------- *)

\* the application: requests served one after the other
Next ==
    \/ Tick
    \/ do_initialize_admin_user
    \/ do_create_user
    \/ do_create_client
    \/ do_update_client
    \/ do_delete_client
    \/ do_create_invoice
    \/ do_update_invoice
    \/ do_delete_invoice

Spec == Init /\ [][Next]_vars

\* the FileDatabase methods called directly, with any dict
NextDb ==
    \/ Tick
    \/ db_save_user
    \/ db_save_client
    \/ db_save_invoice
    \/ db_delete_user
    \/ db_delete_client
    \/ db_delete_invoice

SpecDb == Init /\ [][NextDb]_vars

\* upserts only
NextUpsert ==
    \/ Tick
    \/ db_save_user
    \/ db_save_client
    \/ db_save_invoice

SpecUpsert == Init /\ [][NextUpsert]_vars

\* creations (saves of a dict without id) and deletions only
NextCreateDelete ==
    \/ Tick
    \/ do_initialize_admin_user
    \/ do_create_user
    \/ do_create_client
    \/ do_create_invoice
    \/ db_delete_user
    \/ db_delete_client
    \/ db_delete_invoice

SpecCreateDelete == Init /\ [][NextCreateDelete]_vars

\* the user operations of several processes, interleaved at their file accesses
InitUsers == Init /\ focus = "users"

NextUsers ==
    \/ \E p \in Procs :
          \/ start_create_user(p)
          \/ start_initialize_admin_user(p)
          \/ start_save_user(p)
          \/ save_user_read(p)
          \/ delete_user_read(p)
          \/ write_open(p)
          \/ write_dump(p)
          \/ return(p)

SpecUsers == InitUsers /\ [][NextUsers]_vars

\* the calls of one storage object, on a disk that can lose or damage a file
\* and refuse writes
NextStorage ==
    \/ Tick
    \/ st_get_all
    \/ st_get_user_by_email
    \/ st_save
    \/ env_remove_file
    \/ env_damage_file
    \/ env_disk_fails

SpecStorage == InitStorage /\ [][NextStorage]_vars

\* saves of clients or of invoices by several processes, interleaved at their
\* file accesses
InitRecords == Init /\ focus \in {"clients", "invoices"}

NextRecords ==
    \/ \E p \in Procs :
          \/ save_record_read(p)
          \/ write_open(p)
          \/ write_dump(p)
          \/ return(p)

SpecRecords == InitRecords /\ [][NextRecords]_vars

\* creations, updates and deletions of clients or of invoices by several
\* processes, interleaved at their file accesses
NextUpdates ==
    \/ \E p \in Procs :
          \/ save_record_read(p)
          \/ start_update_record(p)
          \/ update_record_save(p)
          \/ delete_record_read(p)
          \/ write_open(p)
          \/ write_dump(p)
          \/ return(p)

SpecUpdates == InitRecords /\ [][NextUpdates]_vars

\* the functions of utils.py, each applied to the argument the run starts with
InitEngine ==
    /\ users = <<>>
    /\ clients = <<>>
    /\ invoices = <<>>
    /\ now = 0
    /\ focus = "invoices"
    /\ \/ \E xs \in ItemLists, ys \in ItemLists :
             last = Call("items", focus, [xs |-> xs, ys |-> ys], <<>>)
       \/ \E t \in Tables : last = Call("table", focus, t, <<>>)
       \/ \E number \in Numbers : last = Call("number", focus, number, <<>>)
    /\ ever = [ids |-> [c \in Colls |-> {}], generated |-> {}, calls |-> 0]
    /\ torn = {}
    /\ proc = [p \in Procs |-> Idle]
    /\ backend = [class |-> "FileDatabase", data |-> "dict"]
    /\ disk = [kind |-> [c \in Colls |-> "text"], fails |-> FALSE]

\* calculate_invoice_totals(xs + ys)
do_calculate_invoice_totals ==
    /\ last.op = "items"
    /\ last' = Call("calculate_invoice_totals", focus, last.arg,
                    calculate_invoice_totals(last.arg.xs \o last.arg.ys))
    /\ UNCHANGED <<users, clients, invoices, now, focus, ever, torn, proc, backend, disk>>

\* generate_invoice_number(db)
do_generate_invoice_number ==
    /\ last.op = "table"
    /\ last' = Call("generate_invoice_number", focus, last.arg,
                    generate_invoice_number(last.arg))
    /\ UNCHANGED <<users, clients, invoices, now, focus, ever, torn, proc, backend, disk>>

\* number_to_words(number)
do_number_to_words ==
    /\ last.op = "number"
    /\ last' = Call("number_to_words", focus, last.arg, number_to_words(last.arg))
    /\ UNCHANGED <<users, clients, invoices, now, focus, ever, torn, proc, backend, disk>>

NextEngine ==
    \/ do_calculate_invoice_totals
    \/ do_generate_invoice_number
    \/ do_number_to_words

SpecEngine == InitEngine /\ [][NextEngine]_vars

\* the user accounts: the admin of the startup, the accounts created and
\* deleted, and the logins
NextAuth ==
    \/ Tick
    \/ do_initialize_admin_user
    \/ do_create_user
    \/ db_delete_user
    \/ do_login

SpecAuth == InitUsers /\ [][NextAuth]_vars

\* the accounts stored with their flags, the logins, and the requests that
\* carry a token
NextAccess ==
    \/ Tick
    \/ db_save_account
    \/ db_delete_user
    \/ do_login
    \/ do_get_current_user
    \/ do_get_current_active_user
    \/ do_get_current_admin_user

SpecAccess == InitUsers /\ [][NextAccess]_vars

\* the startup of several processes on the users file an earlier run left:
\* empty, with the admin, or with a user stored by save_user and no admin
InitStartup ==
    /\ users \in {<<>>, initialize_admin_user(<<>>, 0).list,
                  save_user(<<>>, [email |-> "user@aasko.com", name |-> "User"], 0).list}
    /\ clients = <<>>
    /\ invoices = <<>>
    /\ now = 0
    /\ focus = "users"
    /\ last = Call("init", focus, <<>>, <<>>)
    /\ ever = [ids |-> [c \in Colls |-> {}], generated |-> {}, calls |-> 0]
    /\ torn = {}
    /\ proc = [p \in Procs |-> Idle]
    /\ backend = [class |-> "FileDatabase", data |-> "dict"]
    /\ disk = [kind |-> [c \in Colls |-> "text"], fails |-> FALSE]

NextStartup ==
    \/ \E p \in Procs :
          \/ start_initialize_admin_user(p)
          \/ save_user_read(p)
          \/ write_open(p)
          \/ write_dump(p)
          \/ return(p)

SpecStartup == InitStartup /\ [][NextStartup]_vars

\* the accounts stored and the requests that list the users
NextListing ==
    \/ Tick
    \/ db_save_account
    \/ do_get_users
    \/ do_debug_list_users

SpecListing == InitUsers /\ [][NextListing]_vars

\* the statistics of a store: users and clients are those an earlier run
\* left, invoices are saved and deleted
InitStats ==
    /\ users \in {<<>>, initialize_admin_user(<<>>, 0).list}
    /\ clients \in {<<>>} \cup {create_client(<<>>, c, 0).list : c \in ClientCreates}
    /\ invoices = <<>>
    /\ now = 0
    /\ focus = "invoices"
    /\ last = Call("init", focus, <<>>, <<>>)
    /\ ever = [ids |-> [c \in Colls |-> {}], generated |-> {}, calls |-> 0]
    /\ torn = {}
    /\ proc = [p \in Procs |-> Idle]
    /\ backend = [class |-> "FileDatabase", data |-> "dict"]
    /\ disk = [kind |-> [c \in Colls |-> "text"], fails |-> FALSE]

NextStats ==
    \/ Tick
    \/ db_save_stat_invoice
    \/ db_delete_invoice
    \/ do_get_stats
    \/ do_get_dashboard_stats

SpecStats == InitStats /\ [][NextStats]_vars

\* the FileDatabase methods on a store that holds users, clients and
\* invoices together
NextStore ==
    \/ fd_save_user
    \/ fd_save_client
    \/ fd_save_invoice
    \/ fd_delete_user
    \/ fd_delete_client
    \/ fd_delete_invoice

SpecStore == InitUsers /\ [][NextStore]_vars

TypeOK ==
    /\ now \in 0..MaxTime
    /\ focus \in Colls
    /\ \A c \in Colls : Len(Coll(c)) <= MaxLen

(* ------------------------------ claims --------------------------------- *)

\* the step is the call op (a step of the clock leaves last as it was)
IsCall(ops) == now' = now /\ last'.op \in ops

\* the collection after the step
CollAfter(c) == IF c = "users" THEN users' ELSE IF c = "clients" THEN clients' ELSE invoices'

\* the key a collection is searched by, and the value of get() when absent
KeyOf(c) == IF c = "users" THEN "email" ELSE "id"
DfltOf(c) == IF c = "users" THEN NoneStr ELSE None

Ids(list) == {list[i].id : i \in 1..Len(list)}
DistinctIds(list) == \A i, j \in 1..Len(list) : i # j => list[i].id # list[j].id
MaxOf(S) == IF S = {} THEN 0 ELSE CHOOSE m \in S : \A x \in S : x <= m
Matches(list, k, v, dflt) == {i \in 1..Len(list) : Get(list[i], k, dflt) = v}

Creates == {"create_user", "initialize_admin_user", "create_client", "create_invoice"}
Saves == {"save_user", "save_client", "save_invoice"}
Deletes == {"delete_user", "delete_client", "delete_invoice"}

\* C1: in a run of creations and deletions, the stored records of a
\* collection have pairwise different ids, and the id given to an appended
\* record was never given before in that collection.
C1_IdsUniqueNeverReused ==
    [][IsCall(Creates) /\ Get(last'.ret, "appended", FALSE)
       => /\ DistinctIds(CollAfter(last'.coll))
          /\ last'.ret.ret.id \notin ever.ids[last'.coll]]_vars

C3_TotalsComputedFromItems ==
    \A i \in 1..Len(invoices) :
        "items" \in DOMAIN invoices[i] =>
            /\ {"subtotal", "tax_amount", "total_amount"} \subseteq DOMAIN invoices[i]
            /\ <<invoices[i].subtotal, invoices[i].tax_amount, invoices[i].total_amount>>
                   = calculate_invoice_totals(invoices[i].items)

\* C4: create_user with the email of a stored user answers 400 'Email
\* already registered' and leaves the users collection as it was.
C4_DuplicateEmailRejected ==
    [][IsCall({"create_user"}) /\ Matches(users, "email", last'.arg.email, NoneStr) # {}
       => /\ last'.ret = Err(400, "Email already registered")
          /\ users' = users]_vars

C4_Witness ==
    /\ last.op = "create_user"
    /\ last.ret.status = 400
    /\ Len(users) = 2
    /\ users[2].email = last.arg.email

\* C6: a save that appends a dict without id gives it the greatest stored id
\* plus 1 (1 in an empty collection).
C6_NewIdIsMaxPlusOne ==
    [][IsCall(Creates \cup Saves) /\ Get(last'.ret, "appended", FALSE)
            /\ "id" \notin DOMAIN last'.arg
       => last'.ret.ret.id = MaxOf(Ids(Coll(last'.coll))) + 1]_vars

\* C7: in a run of upserts, the stored clients and the stored invoices have
\* pairwise different ids, and their ids do not decrease in the order the
\* records were appended.
C7_UpsertIdsDistinctAndOrdered ==
    \A c \in {"clients", "invoices"} :
        /\ DistinctIds(Coll(c))
        /\ \A i, j \in 1..Len(Coll(c)) : i < j => Coll(c)[i].id <= Coll(c)[j].id

\* C8: an upsert whose key is the key of a stored record keeps the length of
\* the collection, puts the new record at the position of the first such
\* record and leaves every other position as it was.
C8_ReplaceInPlace ==
    [][IsCall(Saves) =>
        LET c == last'.coll
            before == Coll(c)
            after == CollAfter(c)
            hits == Matches(before, KeyOf(c), Get(last'.arg, KeyOf(c), DfltOf(c)), DfltOf(c))
        IN hits # {} =>
            /\ Len(after) = Len(before)
            /\ \E i \in hits :
                  /\ \A f \in DOMAIN last'.arg : after[i][f] = last'.arg[f]
                  /\ DOMAIN after[i] = DOMAIN last'.arg \cup {"updated_at"}
                  /\ \A j \in 1..Len(before) : j # i => after[j] = before[j]]_vars

C8_Witness ==
    /\ last.op = "save_client"
    /\ ~last.ret.appended
    /\ Len(clients) = 2
    /\ clients[1] = last.ret.ret
    /\ clients[2].id = clients[1].id

\* C9: a delete removes every record with the given key, keeps the others in
\* their order, and returns TRUE exactly when a record was removed; without a
\* matching record it returns FALSE and the collection is as before.
C9_DeleteRemovesAllMatching ==
    [][IsCall(Deletes) =>
        LET c == last'.coll
            before == Coll(c)
            after == CollAfter(c)
            hits == Matches(before, KeyOf(c), last'.arg, DfltOf(c))
            kept(r) == Get(r, KeyOf(c), DfltOf(c)) # last'.arg
        IN /\ after = SelectSeq(before, kept)
           /\ last'.ret.ret = (hits # {})
           /\ hits = {} => after = before]_vars

C9_Witness ==
    /\ last.op = "delete_client"
    /\ last.ret.ret
    /\ Len(clients) = 1
    /\ Cardinality(ever.ids["clients"]) = 2

\* C10: update_client and update_invoice on a stored id store a record that
\* has the supplied fields as supplied, updated_at as the time of the call,
\* and every other field as stored before; the other records do not change.
C10_PartialUpdate ==
    [][IsCall({"update_client", "update_invoice"}) =>
        LET before == Coll(last'.coll)
            after == CollAfter(last'.coll)
            hits == Matches(before, "id", last'.arg.id, None)
            u == last'.arg.data
        IN hits # {} =>
            /\ last'.ret.status = 200
            /\ Len(after) = Len(before)
            /\ \E i \in hits :
                  /\ DOMAIN after[i] = DOMAIN before[i] \cup DOMAIN u
                  /\ \A f \in DOMAIN u : after[i][f] = u[f]
                  /\ after[i].updated_at = now
                  /\ \A f \in DOMAIN before[i] \ (DOMAIN u \cup {"updated_at"}) :
                        after[i][f] = before[i][f]
                  /\ \A j \in 1..Len(before) : j # i => after[j] = before[j]]_vars

C10_Witness ==
    /\ last.op = "update_client"
    /\ last.ret.status = 200
    /\ DOMAIN last.arg.data = {"phone"}
    /\ Len(clients) = 2
    /\ last.ret.ret.created_at < last.ret.ret.updated_at
    /\ clients[2] = last.ret.ret

\* C5: the user records read from users.json never hold the same email
\* twice, whatever the interleaving of the file accesses of the calls.
C5_EmailsUnique ==
    LET list == read_json("users")
    IN \A i, j \in 1..Len(list) : i # j => list[i].email # list[j].email

\* two create_user calls for the same email both passed the check and both
\* wrote the file
C5_Witness ==
    /\ \A p \in Procs : /\ proc[p].pc = "done"
                        /\ proc[p].op = "create_user"
                        /\ proc[p].key = proc[1].key
                        /\ "wrote" \in DOMAIN proc[p]
    /\ Len(read_json("users")) = 2

\* the file of collection c is absent, or its content is not valid JSON
NoJson(c) == disk.kind[c] \in {"absent", "bytes"} \/ c \in torn

\* C11: get_users, get_clients and get_invoices of FileDatabase return the
\* empty list, and raise nothing, when the file of the collection is absent
\* or does not hold valid JSON.
C11_FileReadOfNoJsonIsEmpty ==
    [][IsCall({"get_all"}) /\ backend.class = "FileDatabase" /\ NoJson(last'.coll)
       => last'.ret.out = Value(<<>>)]_vars

\* C12: with NetlifyDatabase and JSONDatabase, while the file is absent,
\* get_users returns the empty list and get_user_by_email and save_user end
\* without an exception.
C12_AbsentFileReadsEmpty ==
    [][/\ IsCall({"get_all", "get_user_by_email", "save"})
       /\ backend.class \in {"NetlifyDatabase", "JSONDatabase"}
       /\ disk.kind[last'.coll] = "absent"
       => /\ last'.ret.out.kind # "raise"
          /\ last'.op = "get_all" => last'.ret.out = Value(<<>>)]_vars

\* C13: with every storage class, a save whose write to the disk failed ends
\* with an exception for its caller.
C13_WriteFailureReported ==
    [][IsCall({"save"}) /\ last'.ret.failed => last'.ret.out.kind = "raise"]_vars

\* what a read of the collection gives after the step
ReadAfter(c) == IF c \in torn' THEN <<>> ELSE CollAfter(c)

\* C14: while a call rewrites a collection, a read gives the whole list as it
\* was before or the whole list that is being written: the step that opens
\* the file for the write leaves one of the two to be read.
C14_RewriteIsAtomic ==
    [][\A p \in Procs :
          proc[p].pc = "open" /\ proc'[p].pc = "dump"
          => ReadAfter(focus) \in {read_json(focus), proc[p].towrite}]_vars

\* C15: when a save has written, the collection is exactly the list that
\* save computed, so that after two concurrent saves it is the list of the
\* one that wrote last.
C15_LastWriterWins ==
    [][\A p \in Procs :
          proc[p].pc = "dump" /\ proc'[p].pc = "done"
          => focus \notin torn' /\ CollAfter(focus) = proc[p].towrite]_vars

\* C16: two saves of a dict without id that are in progress or done
\* together have given their callers two different ids.
C16_ConcurrentCreatesGetDifferentIds ==
    \A p, q \in Procs :
        p # q /\ proc[p].pc = "done" /\ proc[q].pc = "done"
        => proc[p].ret.id # proc[q].ret.id

\* the exact sums of a list of items: of quantity * unit_price, and of
\* quantity * unit_price * tax_rate (100 times the tax)
RECURSIVE ExactSubtotal(_)
ExactSubtotal(items) ==
    IF items = <<>> THEN 0
    ELSE Head(items).quantity * Head(items).unit_price + ExactSubtotal(Tail(items))
RECURSIVE ExactTax100(_)
ExactTax100(items) ==
    IF items = <<>> THEN 0
    ELSE Head(items).quantity * Head(items).unit_price * Head(items).tax_rate
         + ExactTax100(Tail(items))

\* C17: calculate_invoice_totals returns the sum of quantity * unit_price,
\* the sum of quantity * unit_price * tax_rate / 100 and the sum of the two,
\* each as the float nearest to it; three zeros for the empty list.
C17_TotalsAreTheSums ==
    last.op = "calculate_invoice_totals" =>
        LET items == last.arg.xs \o last.arg.ys
            s == ExactSubtotal(items)
            t == ExactTax100(items)
        IN last.ret = <<Round(s, 1, 0), Round(t, 100, 0), Round(100 * s + t, 100, 0)>>

\* C18: the totals of xs followed by ys are the totals of ys followed by xs,
\* and are the sums, component by component, of the totals of xs and the
\* totals of ys.
C18_TotalsOrderIndependentAdditive ==
    last.op = "calculate_invoice_totals" =>
        LET x == calculate_invoice_totals(last.arg.xs)
            y == calculate_invoice_totals(last.arg.ys)
        IN /\ last.ret = calculate_invoice_totals(last.arg.ys \o last.arg.xs)
           /\ last.ret = <<fadd(x[1], y[1]), fadd(x[2], y[2]), fadd(x[3], y[3])>>

\* C19: generate_invoice_number returns 'INV-' and at least 4 digits, without
\* a leading zero beyond the fourth digit from the end; the digits are the
\* number 1 for an empty table or when what follows the last '-' of the
\* invoice_number of the row with the greatest id is not an integer, and
\* that integer plus 1 otherwise.
C19_NextInvoiceNumber ==
    last.op = "generate_invoice_number" =>
        LET db == last.arg
            digits == SubSeq(last.ret, 5, Len(last.ret))
            top == CHOOSE r \in {db[i] : i \in 1..Len(db)} :
                       \A i \in 1..Len(db) : db[i].id <= r.id
            suffix == SplitLast(top.invoice_number)
            parsable == suffix # <<>> /\ \A i \in 1..Len(suffix) : IsDigit(suffix[i])
            n == IF db = <<>> \/ ~parsable THEN 1 ELSE int(suffix) + 1
        IN /\ SubSeq(last.ret, 1, 4) = <<"I", "N", "V", "-">>
           /\ Len(digits) >= 4
           /\ \A i \in 1..Len(digits) : IsDigit(digits[i])
           /\ int(digits) = n
           /\ Len(digits) > 4 => digits[1] # "0"

\* the row with the greatest id is not the last one and holds INV-9999: the
\* number returned has five digits
C19_Witness ==
    /\ last.op = "generate_invoice_number"
    /\ Len(last.arg) = 2
    /\ last.arg[1].id > last.arg[2].id
    /\ last.ret = <<"I", "N", "V", "-", "1", "0", "0", "0", "0">>

\* C20: authenticate_user returns the stored user when the email is stored
\* and the password is the one its hash was made from, and None otherwise,
\* for an unknown email as for a wrong password; the login then answers 401
\* 'Incorrect email or password' in both cases.
C20_AuthenticationFailuresUniform ==
    [][IsCall({"login"}) =>
        LET i == get_user_by_email(users, last'.arg.email)
            matches == i > 0 /\ users[i].hashed_password = get_password_hash(last'.arg.password)
        IN /\ matches => last'.ret.auth = Value(users[i])
           /\ ~matches => /\ last'.ret.auth = PyNone
                          /\ last'.ret.response = Err(401, "Incorrect email or password")]_vars

\* a login with the email of a stored user and a wrong password, answered
\* as the login of an unknown email is
C20_Witness ==
    /\ last.op = "login"
    /\ get_user_by_email(users, last.arg.email) > 0
    /\ last.ret.auth = PyNone
    /\ last.ret.response.status = 401
    /\ Len(users) = 2

\* the token of the call is one that verifies: signed with the key, with an
\* expiry in the future and with a subject
Verifies(token) ==
    /\ token.form = "jws"
    /\ token.key = SECRET_KEY
    /\ "exp" \in DOMAIN token.claims
    /\ token.claims.exp > utcnow(now)
    /\ "sub" \in DOMAIN token.claims

\* C21: get_current_user returns the stored user with the email of the
\* subject for a token that verifies and names a stored email, and raises
\* 401 'Could not validate credentials' for every other token.
C21_TokenFailuresUniform ==
    [][IsCall({"get_current_user"}) =>
        LET token == last'.arg
            i == IF Verifies(token) THEN get_user_by_email(users, token.claims.sub) ELSE 0
        IN /\ i > 0 => last'.ret = Value(users[i])
           /\ i = 0 => last'.ret = [status |-> 401, detail |-> "Could not validate credentials"]]_vars

\* a token issued one step of the clock ago for a stored user is accepted
C21_Witness ==
    /\ last.op = "get_current_user"
    /\ Accepted(last.ret)
    /\ now > 0
    /\ last.arg.claims.exp = utcnow(now - 1) + ACCESS_TOKEN_EXPIRE_MINUTES
    /\ Len(users) = 2
    /\ last.ret.val = users[2]

\* C22: a request accepted by get_current_admin_user is accepted by
\* get_current_active_user, and one accepted by get_current_active_user is
\* accepted by get_current_user; the request of a stored user whose
\* is_active is FALSE is rejected by get_current_active_user and by
\* get_current_admin_user, whatever its is_admin.
C22_TiersFormAChain ==
    [][IsCall({"get_current_active_user", "get_current_admin_user"}) =>
        LET token == last'.arg
            user == get_current_user(users, token, now)
        IN /\ last'.op = "get_current_admin_user" /\ Accepted(last'.ret)
              => Accepted(get_current_active_user(users, token, now))
           /\ Accepted(last'.ret) => Accepted(user)
           /\ Accepted(user) /\ ~Get(user.val, "is_active", TRUE)
              => ~Accepted(last'.ret)]_vars

\* the token of a stored admin whose is_active is FALSE, rejected by
\* get_current_admin_user
C22_Witness ==
    /\ last.op = "get_current_admin_user"
    /\ Accepted(get_current_user(users, last.arg, now))
    /\ Get(get_current_user(users, last.arg, now).val, "is_admin", FALSE)
    /\ ~Get(get_current_user(users, last.arg, now).val, "is_active", TRUE)
    /\ last.ret = [status |-> 400, detail |-> "Inactive user"]

\* the amount in cents that a stored total_amount stands for
Cents(x) == IF x = float(0) THEN 0 ELSE CHOOSE c \in Amounts : Round(c, 100, 0) = x

\* the exact sum, in cents, of the total_amount of the invoices (0 for an
\* invoice without it)
RECURSIVE ExactRevenue(_)
ExactRevenue(invs) ==
    IF invs = <<>> THEN 0
    ELSE Cents(Get(Head(invs), "total_amount", float(0))) + ExactRevenue(Tail(invs))

\* C23: get_stats returns as total_revenue the sum of the total_amount of
\* the stored invoices, as paid_invoices the number of invoices with status
\* 'paid', as pending_invoices the number with status 'draft' or 'sent', and
\* as the three counts the lengths of the collections; it changes no
\* collection.
C23_StatsAreTheSums ==
    [][IsCall({"get_stats"}) =>
        /\ last'.ret.total_revenue = Round(ExactRevenue(invoices), 100, 0)
        /\ last'.ret.paid_invoices =
              Cardinality({i \in 1..Len(invoices) : invoices[i].status = "paid"})
        /\ last'.ret.pending_invoices =
              Cardinality({i \in 1..Len(invoices) : invoices[i].status \in {"draft", "sent"}})
        /\ last'.ret.users_count = Len(users)
        /\ last'.ret.clients_count = Len(clients)
        /\ last'.ret.invoices_count = Len(invoices)
        /\ UNCHANGED <<users, clients, invoices>>]_vars

\* the invoices created in month m of year y
CreatedIn(invs, y, m) ==
    LET in_month(inv) == /\ "created_at" \in DOMAIN inv
                         /\ YearOf(inv.created_at) = y
                         /\ MonthOf(inv.created_at) = m
    IN SelectSeq(invs, in_month)

\* C24: get_dashboard_stats returns a monthly revenue of 12 entries, January
\* to December; the entry of a month is the sum of the total_amount of the
\* stored invoices created in that month of the year, 0 when there is none.
C24_MonthlyRevenueRollup ==
    [][IsCall({"get_dashboard_stats"}) =>
        /\ last'.ret.out.kind = "value"
        /\ LET rollup == last'.ret.out.val.monthly_revenue
           IN /\ Len(rollup) = 12
              /\ \A m \in 1..12 :
                    /\ rollup[m].month = MonthNames[m]
                    /\ rollup[m].revenue =
                          Round(ExactRevenue(CreatedIn(invoices, YearOf(now), m)), 100, 0)]_vars

\* C25: every save and delete of FileDatabase leaves the two collections
\* it is not named for as they were; delete_client leaves invoices and users
\* as they were also when a stored invoice has the client_id deleted.
C25_OnlyOwnCollectionChanges ==
    [][IsCall(Saves \cup Deletes) =>
        \A c \in Colls \ {last'.coll} : CollAfter(c) = Coll(c)]_vars

\* a client has been deleted and an invoice with its client_id is stored
C25_Witness ==
    /\ last.op = "delete_client"
    /\ last.ret.ret
    /\ \E i \in 1..Len(invoices) : invoices[i].client_id = last.arg
    /\ users # <<>>

\* C26: for a negative number and for inf, -inf and nan, number_to_words
\* returns str(number).
C26_FailureInputsGiveNumericString ==
    last.op = "number_to_words" /\ (last.arg.kind # "finite" \/ last.arg.neg)
    => last.ret = [kind |-> "str", number |-> last.arg]

\* C27: from the same stored users, with the file in place and the disk
\* writing, a save_user leaves the same list with FileDatabase, with
\* NetlifyDatabase and with JSONDatabase, and get_users gives the same list
\* with the three: by induction the three store the same records and give
\* the same lookups after the same calls.
C27_BackendsInterchangeable ==
    [][/\ IsCall({"save", "get_all", "get_user_by_email"})
       /\ last'.coll = "users"
       /\ disk.kind["users"] = "text" /\ "users" \notin torn /\ ~disk.fails
       /\ backend.data = "dict"
       => /\ FileDatabase_read_json("users") = NetlifyDatabase_read_json("users")
          /\ FileDatabase_read_json("users") = JSONDatabase_get("users")
          /\ last'.op = "save" =>
                LET f == FileDatabase_save("users", last'.arg, now, FALSE)
                    n == NetlifyDatabase_save("users", last'.arg, FALSE)
                    j == JSONDatabase_save("users", last'.arg)
                IN f.list = n.list /\ f.list = j.list /\ f.out = n.out /\ f.out = j.out]_vars

\* C28: create_invoice succeeds; the invoice it stores carries the number
\* supplied when one is supplied, and otherwise the number that
\* generate_invoice_number gives for the invoices stored at the call.
C28_CreateInvoiceNumber ==
    [][IsCall({"create_invoice"}) =>
        /\ last'.ret.status = 200
        /\ Len(invoices') = Len(invoices) + 1
        /\ invoices'[Len(invoices')].invoice_number =
              IF last'.arg.invoice_number = <<>>
              THEN generate_invoice_number(invoices)
              ELSE last'.arg.invoice_number]_vars

\* C29: when a delete of id k has returned TRUE and an update of id k that
\* ran together with it has finished, the collection read holds no record
\* with id k and no more records than it held when the first of the two
\* began.
C29_UpdateNeverAddsARecord ==
    \A p, q \in Procs :
        /\ proc[p].pc = "done" /\ proc[p].op = "delete" /\ proc[p].ret = TRUE
        /\ proc[q].pc = "done" /\ proc[q].op = "update"
        /\ proc[q].key.id = proc[p].key.id
        => /\ \A i \in 1..Len(read_json(focus)) : read_json(focus)[i].id # proc[p].key.id
           /\ Len(read_json(focus)) <= proc[p].key.len
           /\ Len(read_json(focus)) <= proc[q].key.len

\* C30: after a save_user, save_client or save_invoice every stored record of
\* the collection has an id and a created_at, and a save that replaces a
\* stored record leaves at its position a record with the id and the
\* created_at of the record replaced.
C30_ReplaceKeepsIdAndCreatedAt ==
    [][IsCall(Saves) =>
        LET c == last'.coll
            before == Coll(c)
            after == CollAfter(c)
            hits == Matches(before, KeyOf(c), Get(last'.arg, KeyOf(c), DfltOf(c)), DfltOf(c))
        IN /\ \A i \in 1..Len(after) : {"id", "created_at"} \subseteq DOMAIN after[i]
           /\ hits # {} =>
                 \E i \in hits :
                    /\ after[i].id = before[i].id
                    /\ after[i].created_at = before[i].created_at]_vars

\* C31: a login with the email of a stored user whose is_active is FALSE
\* returns no token; get_current_active_user rejects every token whose
\* subject is the email of a stored user whose is_active is FALSE; and
\* get_current_user rejects every token whose subject is the email of no
\* stored user. The user is the one stored when the request is made,
\* whenever the token was issued.
C31_AccessFollowsUserRecord ==
    [][IsCall({"login", "get_current_user", "get_current_active_user"}) =>
        LET email == IF last'.op = "login" THEN last'.arg.email
                     ELSE Get(last'.arg.claims, "sub", NoneStr)
            i == get_user_by_email(users, email)
        IN /\ last'.op = "login" /\ i > 0 /\ ~Get(users[i], "is_active", TRUE)
              => "access_token" \notin DOMAIN last'.ret.response
           /\ last'.op = "get_current_active_user" /\ i > 0 /\ ~Get(users[i], "is_active", TRUE)
              => ~Accepted(last'.ret)
           /\ i = 0 => /\ last'.op # "login" => ~Accepted(last'.ret)
                       /\ last'.op = "login" => "access_token" \notin DOMAIN last'.ret.response]_vars

\* a token issued one step of the clock ago, still within its life, whose
\* user was stored again since then, with is_active FALSE, is rejected
C31_Witness ==
    /\ last.op = "get_current_active_user"
    /\ Verifies(last.arg)
    /\ now > 0
    /\ last.arg.claims.exp = utcnow(now - 1) + ACCESS_TOKEN_EXPIRE_MINUTES
    /\ get_user_by_email(users, last.arg.claims.sub) > 0
    /\ ~Get(users[get_user_by_email(users, last.arg.claims.sub)], "is_active", TRUE)
    /\ "created_at" \notin DOMAIN users[get_user_by_email(users, last.arg.claims.sub)]
    /\ users[get_user_by_email(users, last.arg.claims.sub)].updated_at = now
    /\ last.ret = [status |-> 400, detail |-> "Inactive user"]

\* C32: a request that lists the users is answered with stored user records
\* only when its token passes get_current_admin_user: a request without a
\* token, or with the token of a user who is not admin, is given no record.
C32_UsersOnlyToAdmin ==
    [][IsCall({"get_users", "debug_list_users"}) /\ Len(users) > 0 =>
        (last'.ret.status = 200
            => Accepted(get_current_admin_user(users, last'.arg, now)))]_vars

\* C33: once initialize_admin_user has been called and no call of it is in
\* progress, the users collection read holds exactly one record with the
\* admin email, whether the calls ran one after the other or together.
C33_ExactlyOneAdmin ==
    (ever.calls > 0 /\ \A p \in Procs : proc[p].pc \in {"idle", "done"})
    => Cardinality({i \in 1..Len(read_json("users")) :
                      read_json("users")[i].email = ADMIN_EMAIL}) = 1

\* C34: for a finite number that is not negative, the cents that
\* number_to_words derives, round((number - int(number)) * 100), are between
\* 0 and 99; the cents are rendered exactly when they are above 0, as the
\* one word of a number below 100, after the words of the whole part.
C34_CentsBelow100 ==
    last.op = "number_to_words" /\ last.arg.kind = "finite" /\ ~last.arg.neg
    => LET decimal_part == round(fmul(Frac(last.arg.mag), float(100)))
       IN /\ last.ret.kind = "words"
          /\ decimal_part \in 0..99
          /\ (last.ret.cents # <<>>) = (decimal_part > 0)
          /\ Len(last.ret.cents) <= 1
          /\ last.ret.integer = inflect_number_to_words(Whole(last.arg.mag))

====
